---------------------------- MODULE Spec2Model ----------------------------
(***************************************************************************)
(* A model of the NEAT core of Evolutionary-Neural-Hardware (src/src/neat.c *)
(* with src/include/neat.h and src/include/config.h).                      *)
(*                                                                         *)
(* Conventions.                                                            *)
(*  - C arrays are sequences; the C index i is the TLA+ index i + 1.       *)
(*  - Weights, biases and input values are integers (the real with that    *)
(*    value).  Fitness values are counted in halves (FitUnit = 2), so that *)
(*    0.5 is representable and the int truncation of neat.h:100 acts.      *)
(*  - Every call of the random number generator is an input of the         *)
(*    operator that consumes it, enumerated by the action.                 *)
(*  - A node value is a term [act, bias, args]: act = ConstTerm for a      *)
(*    literal, JunkTerm for the content of memory that was never written,  *)
(*    otherwise the activation kind applied to bias + sum of args.         *)
(***************************************************************************)
EXTENDS Integers, Sequences, FiniteSets, TLC

(* ------------------------- config.h ------------------------------------ *)
NEAT_DEFAULT_ALLOC_SIZE == 128
NEAT_GROWTH_FACTOR == 2
NEAT_MAX_ACTIVATION_FUNCS == 10
NEAT_ACTIVATION_SIGMOID == 0
NEAT_PLACEMENT_INPUT == 0
NEAT_PLACEMENT_HIDDEN == 1
NEAT_PLACEMENT_OUTPUT == 2
NEAT_COMPATIBILITY_THRESHOLD == 3
\* NEAT_EXCESS_COEFF 1.0, NEAT_DISJOINT_COEFF 1.0, NEAT_WEIGHT_COEFF 0.4 as
\* fractions over CoeffDen.
CoeffDen == 5
NEAT_EXCESS_COEFF5 == 5
NEAT_DISJOINT_COEFF5 == 5
NEAT_WEIGHT_COEFF5 == 2
\* the literal 20.0 of neat_compatibility_distance
SmallGenome == 20

(* ------------------------- bounds of the model ------------------------- *)
\* nodes a genome may hold (3 initial nodes and the hidden nodes of splits)
MaxNodes == 5
\* operations applied to the genomes: under SpecMut, and under the
\* specifications that add the caller's own calls
MaxMutOps == 3
MaxOps == 2
\* connections of a genome handed to neat_compatibility_distance
MaxGenes == 2
\* calls of neat_evolve in a run
MaxGenerations == 2
\* calls of neat_evolve in a run whose fitness values the caller assigns
MaxStagnantRun == 17
\* activation kinds the generator draws in neat_mutate_activation: 0..MaxAct
MaxAct == 1
\* node splits of the genome whose connection array is full
MaxSplits == 1
\* genomes of the population handed to neat_evaluate_parallel, and the
\* num_threads it is called with: 1..MaxParGenomes, 1..MaxThreads
MaxParGenomes == 3
MaxThreads == 3
\* genomes of the population neat_speciate is called on by hand, and the
\* calls (mutations and neat_speciate) of such a run
SpeciateGenomes == 3
MaxSpeciateOps == 3
\* the seeds handed to neat_srand, 1..MaxSeed, and the draws taken from the
\* generator in the runs that look at the values it returns
MaxSeed == 15
MaxDraws == 3

\* the arity neat_create_population is called with
Arity == [inputs |-> 1, outputs |-> 1]
InputSize == Arity.inputs
OutputSize == Arity.outputs
\* values the normal generator is taken to return for weights and biases
WeightDraws == {-4, 4}
BiasDraws == {1}
InputValues == {0, 1}
\* fitness values in halves: -1, 0, 0.5, 1
FitnessDraws == {-2, 0, 1, 2}
JunkValues == {0, 7}
ActDraws == 0..MaxAct

ConstTerm == -1
JunkTerm == -2

Const(c) == [act |-> ConstTerm, bias |-> c, args |-> <<>>]
Junk(c) == [act |-> JunkTerm, bias |-> c, args |-> <<>>]

Max(a, b) == IF a > b THEN a ELSE b
Abs(a) == IF a < 0 THEN -a ELSE a
Range(s) == {s[i] : i \in 1..Len(s)}

(* ------------------------- nodes and connections ----------------------- *)
\* neat_create_node: bias is the value neat_random_normal(0, 1) returned
neat_create_node(id, type, placement, bias) ==
    [id |-> id, type |-> type, placement |-> placement,
     activation_type |-> NEAT_ACTIVATION_SIGMOID, value |-> Const(0),
     bias |-> bias, active |-> TRUE, x_pos |-> 0]

neat_create_connection(innovation, in_node, out_node, weight, enabled) ==
    [innovation |-> innovation, in_node |-> in_node, out_node |-> out_node,
     weight |-> weight, enabled |-> enabled]

\* neat_create_genome: evaluation_order = <<>> stands for NULL; junk is the
\* content of the malloc'ed node slots that no neat_add_node has written.
neat_create_genome(id, junk) ==
    [id |-> id, nodes |-> <<>>, connections |-> <<>>,
     connection_capacity |-> NEAT_DEFAULT_ALLOC_SIZE,
     fitness |-> 0, adjusted_fitness |-> [num |-> 0, den |-> 1],
     species_id |-> -1, evaluation_order |-> <<>>, junk |-> junk]

node_count(genome) == Len(genome.nodes)
connection_count(genome) == Len(genome.connections)

\* neat_add_node returns before the code that would drop evaluation_order
neat_add_node(genome, type, placement, bias) ==
    [genome EXCEPT !.nodes =
        Append(@, neat_create_node(node_count(genome), type, placement, bias))]

\* the duplicate test looking at the first connection only
HasConnection_FirstOnly(genome, in_node, out_node) ==
    /\ connection_count(genome) > 0
    /\ genome.connections[1].in_node = in_node
    /\ genome.connections[1].out_node = out_node

HasConnection(genome, in_node, out_node) ==
    \E i \in 1..connection_count(genome) :
        /\ genome.connections[i].in_node = in_node
        /\ genome.connections[i].out_node = out_node

\* the value neat_add_connection returns
neat_add_connection_rc(genome, in_node, out_node) ==
    IF HasConnection(genome, in_node, out_node) THEN -1 ELSE 0

\* whether this call of neat_add_connection reallocates the array
Reallocates(genome) ==
    connection_count(genome) >= genome.connection_capacity

\* neat_add_connection that writes the weight and the flag it is handed
\* over the connection it finds
neat_add_connection_Overwrite(genome, in_node, out_node, weight, enabled) ==
    IF HasConnection(genome, in_node, out_node)
    THEN [genome EXCEPT !.connections =
            [i \in 1..Len(@) |->
                IF @[i].in_node = in_node /\ @[i].out_node = out_node
                THEN [@[i] EXCEPT !.weight = weight, !.enabled = enabled]
                ELSE @[i]]]
    ELSE [genome EXCEPT
            !.connection_capacity =
                IF Reallocates(genome) THEN @ * NEAT_GROWTH_FACTOR ELSE @,
            !.connections =
                Append(@, neat_create_connection(-1, in_node, out_node,
                                                  weight, enabled)),
            !.evaluation_order = <<>>]

\* the genome after neat_add_connection
neat_add_connection(genome, in_node, out_node, weight, enabled) ==
    IF HasConnection(genome, in_node, out_node)
    THEN genome
    ELSE [genome EXCEPT
            !.connection_capacity =
                IF Reallocates(genome) THEN @ * NEAT_GROWTH_FACTOR ELSE @,
            !.connections =
                Append(@, neat_create_connection(-1, in_node, out_node,
                                                  weight, enabled)),
            !.evaluation_order = <<>>]

\* genome->connections[connection_count - k].innovation = innovation
SetInnovation(genome, k, innovation) ==
    [genome EXCEPT
        !.connections[connection_count(genome) + 1 - k].innovation = innovation]

(* ------------------------- innovation table ---------------------------- *)
\* neat_create_innovation_table.  The weight field of a record is written
\* and never read; the model leaves it out.
neat_create_innovation_table ==
    [innovations |-> <<>>, next_innovation |-> 1, next_node_id |-> 1,
     next_species_id |-> 1]

InnovationMatches(table, in_node, out_node, is_new_node) ==
    {i \in 1..Len(table.innovations) :
        /\ table.innovations[i].in_node = in_node
        /\ table.innovations[i].out_node = out_node
        /\ table.innovations[i].is_new_node = is_new_node}

Min(S) == CHOOSE x \in S : \A y \in S : x <= y

\* neat_get_innovation: [t |-> the table afterwards, n |-> the value returned]
neat_get_innovation(table, in_node, out_node, is_new_node, node_id) ==
    LET found == InnovationMatches(table, in_node, out_node, is_new_node)
    IN  IF found # {}
        THEN [t |-> table, n |-> table.innovations[Min(found)].innovation_number]
        ELSE LET number == IF is_new_node THEN table.next_node_id
                           ELSE table.next_innovation + 1
                 innov == [innovation_id |-> table.next_innovation,
                           in_node |-> in_node, out_node |-> out_node,
                           is_new_node |-> is_new_node,
                           node_id |-> IF is_new_node THEN node_id ELSE 0,
                           innovation_number |-> number]
             IN [t |-> [table EXCEPT
                          !.innovations = Append(@, innov),
                          !.next_innovation =
                              IF is_new_node THEN @ + 1 ELSE @ + 2,
                          !.next_node_id = IF is_new_node THEN @ + 1 ELSE @],
                 n |-> number]


(* ------------------------- mutation operators -------------------------- *)
\* C indices of the enabled and of the disabled connections
EnabledIdx(genome) ==
    {i \in 0..(connection_count(genome) - 1) : genome.connections[i + 1].enabled}
DisabledIdx(genome) ==
    {i \in 0..(connection_count(genome) - 1) : ~genome.connections[i + 1].enabled}

\* neat_mutate_weights: ws[i] and bs[i] are the weight of connection i and
\* the bias of node i after the loops (the old value where the draw of
\* neat_random_uniform skipped it, else the old value plus the normal draw).
neat_mutate_weights(genome, ws, bs) ==
    [genome EXCEPT
        !.connections = [i \in 1..Len(@) |-> [@[i] EXCEPT !.weight = ws[i]]],
        !.nodes = [i \in 1..Len(@) |-> [@[i] EXCEPT !.bias = bs[i]]]]

\* the test of neat.c:366-371: x_pos is 0 in every node (neat_create_node)
\* and nothing in the core assigns it
CycleCheckRejects(from_node, to_node) == from_node.x_pos >= to_node.x_pos

\* neat_mutate_add_connection: from_node_idx and to_node_idx are the two
\* draws of neat_random_int, weight the draw of neat_random_normal.
neat_mutate_add_connection(genome, table, from_node_idx, to_node_idx, weight) ==
    IF node_count(genome) < 2 \/ from_node_idx = to_node_idx
    THEN [g |-> genome, t |-> table]
    ELSE LET from_node == genome.nodes[from_node_idx + 1]
             to_node == genome.nodes[to_node_idx + 1]
         IN  IF CycleCheckRejects(from_node, to_node)
                \/ HasConnection(genome, from_node.id, to_node.id)
             THEN [g |-> genome, t |-> table]
             ELSE LET r == neat_get_innovation(table, from_node.id, to_node.id,
                                               FALSE, -1)
                      g1 == neat_add_connection(genome, from_node.id,
                                                to_node.id, weight, TRUE)
                  IN [g |-> IF connection_count(g1) > 0
                            THEN SetInnovation(g1, 1, r.n) ELSE g1,
                      t |-> r.t]

\* the node id neat_mutate_add_node gives the node it creates
NewNodeId(genome) == node_count(genome)

\* neat_mutate_add_node: conn_index is the enabled connection the search
\* loop ends on, or -1 when 100 draws found none; bias is the draw of
\* neat_create_node; stale_out is what conn_to_split->out_node reads after
\* the first neat_add_connection moved the array (neat.c:446).
neat_mutate_add_node(genome, table, conn_index, bias, stale_out) ==
    IF connection_count(genome) = 0 \/ conn_index = -1
    THEN [g |-> genome, t |-> table]
    ELSE LET conn == genome.connections[conn_index + 1]
             g1 == [genome EXCEPT !.connections[conn_index + 1].enabled = FALSE]
             new_node_id == NewNodeId(genome)
             g2 == neat_add_node(g1, "HIDDEN", NEAT_PLACEMENT_HIDDEN, bias)
             weight1 == 1
             weight2 == conn.weight
             r1 == neat_get_innovation(table, conn.in_node, new_node_id, FALSE, -1)
             r2 == neat_get_innovation(r1.t, new_node_id, conn.out_node, FALSE, -1)
             g3 == neat_add_connection(g2, conn.in_node, new_node_id, weight1, TRUE)
             out2 == IF Reallocates(g2) THEN stale_out ELSE conn.out_node
             g4 == neat_add_connection(g3, new_node_id, out2, weight2, TRUE)
         IN  [g |-> IF connection_count(g4) > 1
                    THEN SetInnovation(SetInnovation(g4, 2, r1.n), 1, r2.n)
                    ELSE g4,
              t |-> r2.t]

\* the C index of the (target+1)-th disabled connection
NthDisabled(genome, target) ==
    CHOOSE i \in DisabledIdx(genome) :
        Cardinality({j \in DisabledIdx(genome) : j < i}) = target

\* neat_mutate_toggle_connection: chosen is the connection the reservoir
\* loop ends with (-1: every test uniform < 1/enabled_count failed), target
\* the draw of neat_random_int(0, disabled_count - 1).
neat_mutate_toggle_connection(genome, chosen, target) ==
    IF connection_count(genome) = 0 THEN genome
    ELSE IF chosen = -1
         THEN IF DisabledIdx(genome) # {}
              THEN [genome EXCEPT
                      !.connections[NthDisabled(genome, target) + 1].enabled = TRUE]
              ELSE genome
         ELSE [genome EXCEPT !.connections[chosen + 1].enabled = ~@]

\* neat_mutate_activation: node_idx and kind are the draws of neat_random_int
neat_mutate_activation(genome, node_idx, kind) ==
    IF node_count(genome) = 0 THEN genome
    ELSE IF genome.nodes[node_idx + 1].type \in {"INPUT", "BIAS"} THEN genome
         ELSE [genome EXCEPT !.nodes[node_idx + 1].activation_type = kind]

(* ------------------------- crossover ----------------------------------- *)
Fitter(parent1, parent2) ==
    IF parent1.fitness >= parent2.fitness THEN parent1 ELSE parent2
Other(parent1, parent2) ==
    IF parent1.fitness >= parent2.fitness THEN parent2 ELSE parent1

\* TLA+ indices of other's connections with the innovation of conn
MatchIdx(other, conn) ==
    {j \in 1..connection_count(other) :
        other.connections[j].innovation = conn.innovation}

\* the nodes of the fitter parent, added one by one with neat_add_node
RECURSIVE CopyNodes(_, _, _)
CopyNodes(child, fitter, i) ==
    IF i > node_count(fitter) THEN child
    ELSE LET node == fitter.nodes[i]
             c1 == neat_add_node(child, node.type, node.placement, node.bias)
         IN CopyNodes([c1 EXCEPT !.nodes[i].activation_type = node.activation_type],
                      fitter, i + 1)

\* the first loop of neat_crossover: take[i] is the outcome of
\* neat_random_uniform(0, 1) < 0.5 for the fitter parent's connection i
RECURSIVE InheritFitter(_, _, _, _, _)
InheritFitter(child, fitter, other, take, i) ==
    IF i > connection_count(fitter) THEN child
    ELSE LET conn == fitter.connections[i]
             found == MatchIdx(other, conn)
             inherited == IF found # {} /\ i \in take
                          THEN other.connections[Min(found)] ELSE conn
         IN InheritFitter(
                neat_add_connection(child, inherited.in_node, inherited.out_node,
                                    inherited.weight, inherited.enabled),
                fitter, other, take, i + 1)

\* the second loop: extra holds the connections of the other parent for
\* which neat_random_uniform(0, 1) < 0.5
RECURSIVE InheritOther(_, _, _, _, _)
InheritOther(child, fitter, other, extra, i) ==
    IF i > connection_count(other) THEN child
    ELSE LET conn == other.connections[i]
             exists == MatchIdx(fitter, conn) # {}
         IN InheritOther(
                IF ~exists /\ i \in extra
                THEN neat_add_connection(child, conn.in_node, conn.out_node,
                                         conn.weight, conn.enabled)
                ELSE child,
                fitter, other, extra, i + 1)

neat_crossover(parent1, parent2, take, extra, junk) ==
    LET fitter == Fitter(parent1, parent2)
        other == Other(parent1, parent2)
        c0 == CopyNodes(neat_create_genome(-1, junk), fitter, 1)
        c1 == InheritFitter(c0, fitter, other, take, 1)
    IN  InheritOther(c1, fitter, other, extra, 1)

\* neat_clone_genome is declared in neat.h and defined in no file of the
\* repository: a deep copy of the node list, the connection list and the
\* scalar fields, with the evaluation order left to be recomputed.
neat_clone_genome(genome, junk) ==
    [genome EXCEPT !.evaluation_order = <<>>, !.junk = junk]

(* ------------------------- compatibility distance ---------------------- *)
\* the merge loop of neat_compatibility_distance from positions i, j (TLA+
\* indices) with the counters in acc
\* the merge loop that does not count a gene only genome2 has
RECURSIVE CompatWalk_FirstOnly(_, _, _, _, _)
CompatWalk_FirstOnly(c1, c2, i, j, acc) ==
    IF i > Len(c1) \/ j > Len(c2)
    THEN [acc EXCEPT !.excess = (Len(c1) - (i - 1)) + (Len(c2) - (j - 1))]
    ELSE IF c1[i].innovation = c2[j].innovation
         THEN CompatWalk_FirstOnly(c1, c2, i + 1, j + 1,
                [acc EXCEPT !.matching = @ + 1,
                            !.weight_diff_sum = @ + Abs(c1[i].weight - c2[j].weight)])
         ELSE IF c1[i].innovation < c2[j].innovation
              THEN CompatWalk_FirstOnly(c1, c2, i + 1, j,
                                        [acc EXCEPT !.disjoint = @ + 1])
              ELSE CompatWalk_FirstOnly(c1, c2, i, j + 1, acc)

RECURSIVE CompatWalk(_, _, _, _, _)
CompatWalk(c1, c2, i, j, acc) ==
    IF i > Len(c1) \/ j > Len(c2)
    THEN [acc EXCEPT !.excess = (Len(c1) - (i - 1)) + (Len(c2) - (j - 1))]
    ELSE IF c1[i].innovation = c2[j].innovation
         THEN CompatWalk(c1, c2, i + 1, j + 1,
                [acc EXCEPT !.matching = @ + 1,
                            !.weight_diff_sum = @ + Abs(c1[i].weight - c2[j].weight)])
         ELSE IF c1[i].innovation < c2[j].innovation
              THEN CompatWalk(c1, c2, i + 1, j, [acc EXCEPT !.disjoint = @ + 1])
              ELSE CompatWalk(c1, c2, i, j + 1, [acc EXCEPT !.disjoint = @ + 1])

CompatCounts(genome1, genome2) ==
    CompatWalk(genome1.connections, genome2.connections, 1, 1,
               [matching |-> 0, disjoint |-> 0, excess |-> 0, weight_diff_sum |-> 0])

\* one pass of the merge loop at the positions w.i, w.j (TLA+ indices)
CompatPass(c1, c2, w) ==
    IF c1[w.i].innovation = c2[w.j].innovation
    THEN [i |-> w.i + 1, j |-> w.j + 1,
          acc |-> [w.acc EXCEPT
                     !.matching = @ + 1,
                     !.weight_diff_sum = @ + Abs(c1[w.i].weight - c2[w.j].weight)]]
    ELSE IF c1[w.i].innovation < c2[w.j].innovation
         THEN [i |-> w.i + 1, j |-> w.j, acc |-> [w.acc EXCEPT !.disjoint = @ + 1]]
         ELSE [i |-> w.i, j |-> w.j + 1, acc |-> [w.acc EXCEPT !.disjoint = @ + 1]]

\* the distance as the fraction num / den, from the counters c of the loop
DistanceOfCounts(c, genome1, genome2) ==
    LET n0 == Max(connection_count(genome1), connection_count(genome2))
        N == IF n0 < SmallGenome THEN 1 ELSE n0
        structural == NEAT_EXCESS_COEFF5 * c.excess + NEAT_DISJOINT_COEFF5 * c.disjoint
    IN  IF c.matching > 0
        THEN [num |-> structural * c.matching + NEAT_WEIGHT_COEFF5 * c.weight_diff_sum * N,
              den |-> CoeffDen * N * c.matching]
        ELSE [num |-> structural, den |-> CoeffDen * N]

\* neat_compatibility_distance
neat_compatibility_distance(genome1, genome2) ==
    DistanceOfCounts(CompatCounts(genome1, genome2), genome1, genome2)

\* comparisons of fractions with positive denominators
FracLess(a, b) == a.num * b.den < b.num * a.den
FracEq(a, b) == a.num * b.den = b.num * a.den
FracOfInt(k) == [num |-> k, den |-> 1]


(* ------------------------- network evaluation -------------------------- *)
\* genome->nodes[idx] as the evaluator reads it: a slot no neat_add_node
\* has written holds what malloc left there (genome.junk)
NodeAt(genome, idx) ==
    IF idx < node_count(genome) THEN genome.nodes[idx + 1]
    ELSE [id |-> idx, type |-> "HIDDEN", placement |-> NEAT_PLACEMENT_HIDDEN,
          activation_type |-> NEAT_ACTIVATION_SIGMOID, value |-> genome.junk,
          bias |-> 0, active |-> genome.junk.bias # 0, x_pos |-> 0]

\* the inner loop of neat_update_network: the summands of node, from
\* connection j on, in the order they are added; src is the index
\* conn->in_node the value v was read at
RECURSIVE WeightedInputs(_, _, _)
WeightedInputs(genome, node, j) ==
    IF j > connection_count(genome) THEN <<>>
    ELSE LET conn == genome.connections[j]
             rest == WeightedInputs(genome, node, j + 1)
         IN  IF conn.out_node = node.id /\ conn.enabled
                /\ NodeAt(genome, conn.in_node).active
             THEN <<[w |-> conn.weight, v |-> NodeAt(genome, conn.in_node).value,
                     src |-> conn.in_node]>>
                  \o rest
             ELSE rest

\* neat_activation(type, sum + bias) as a term
neat_activation(node, summands) ==
    [act |-> node.activation_type, bias |-> node.bias, args |-> summands]

\* the loop over evaluation_order from position k on
RECURSIVE EvaluateNodes(_, _)
EvaluateNodes(genome, k) ==
    IF k > Len(genome.evaluation_order) THEN genome
    ELSE LET node_idx == genome.evaluation_order[k]
             node == genome.nodes[node_idx + 1]
         IN  IF node.type = "INPUT" THEN EvaluateNodes(genome, k + 1)
             ELSE EvaluateNodes(
                    [genome EXCEPT !.nodes[node_idx + 1].value =
                        neat_activation(node, WeightedInputs(genome, node, 1))],
                    k + 1)

\* the reset loop of neat_update_network
ResetValues(genome) ==
    [genome EXCEPT !.nodes =
        [i \in 1..node_count(genome) |->
            IF genome.nodes[i].type # "INPUT"
            THEN [genome.nodes[i] EXCEPT !.value = Const(0)]
            ELSE genome.nodes[i]]]

neat_update_network(genome) ==
    LET g1 == IF genome.evaluation_order = <<>>
              THEN [genome EXCEPT !.evaluation_order =
                        [i \in 1..node_count(genome) |-> i - 1]]
              ELSE genome
    IN  EvaluateNodes(ResetValues(g1), 1)

\* TLA+ indices of the nodes of a type, in array order
NodesOfType(genome, type) ==
    {i \in 1..node_count(genome) : genome.nodes[i].type = type}
Rank(S, i) == Cardinality({j \in S : j < i})

\* the first loop of neat_evaluate: inputs is the caller's array
SetInputs(genome, inputs) ==
    [genome EXCEPT !.nodes =
        [i \in 1..node_count(genome) |->
            [genome.nodes[i] EXCEPT !.value =
                IF genome.nodes[i].type = "INPUT"
                THEN Const(inputs[Rank(NodesOfType(genome, "INPUT"), i) + 1])
                ELSE IF genome.nodes[i].type = "BIAS" THEN Const(1) ELSE Const(0)]]]

\* neat_evaluate that writes the input nodes and resets no other value
neat_evaluate_NoReset(genome, inputs) ==
    LET g0 == [genome EXCEPT !.nodes =
                  [i \in 1..node_count(genome) |->
                      IF genome.nodes[i].type = "INPUT"
                      THEN [genome.nodes[i] EXCEPT !.value =
                              Const(inputs[Rank(NodesOfType(genome, "INPUT"), i) + 1])]
                      ELSE genome.nodes[i]]]
        g1 == IF g0.evaluation_order = <<>>
              THEN [g0 EXCEPT !.evaluation_order =
                        [i \in 1..node_count(g0) |-> i - 1]]
              ELSE g0
    IN  EvaluateNodes(g1, 1)

\* the genome after neat_evaluate
neat_evaluate(genome, inputs) == neat_update_network(SetInputs(genome, inputs))

\* the array neat_evaluate writes: the values of the output nodes in order
RECURSIVE CollectOutputs(_, _)
CollectOutputs(genome, i) ==
    IF i > node_count(genome) THEN <<>>
    ELSE IF genome.nodes[i].type = "OUTPUT"
         THEN <<genome.nodes[i].value>> \o CollectOutputs(genome, i + 1)
         ELSE CollectOutputs(genome, i + 1)

neat_evaluate_outputs(genome, inputs) ==
    CollectOutputs(neat_evaluate(genome, inputs), 1)

(* ------------------------- species ------------------------------------- *)
NEAT_DEFAULT_STAGNATION_LIMIT == 15
FitUnit == 2
INT_MIN == -2147483647 - 1
\* stands for the -1e10 of neat_create_species, in halves: below every
\* fitness a genome is given
NoFitness == -1000000
\* what the conversion of -1e10 to the int max_fitness_achieved leaves
\* (out of the range of int: undefined)
MfaInit == {INT_MIN, 0}
\* what the conversion of a NaN to int leaves (undefined)
NanToInt == {INT_MIN, 0}

\* (int)f for a fitness f in halves: truncation towards zero
TruncToInt(f) == IF f >= 0 THEN f \div FitUnit ELSE -((-f) \div FitUnit)
\* the comparison of the double f with the int m converted to double
FitnessAbove(f, m) == IF m = INT_MIN THEN TRUE ELSE f > FitUnit * m

\* neat_create_species.  ever_best and stagnant are history fields, not
\* fields of neat_species_t: the best fitness the species and the species
\* its representative descends from ever had, and the generations since
\* that value rose.
neat_create_species(id) ==
    [id |-> id, members |-> <<>>, best_fitness |-> NoFitness,
     average_fitness |-> FracOfInt(0), staleness |-> 0, age |-> 0,
     representative |-> 0, ever_best |-> NoFitness, stagnant |-> 0]

RECURSIVE SumFitness(_, _, _)
SumFitness(gs, members, i) ==
    IF i > Len(members) THEN 0
    ELSE gs[members[i]].fitness + SumFitness(gs, members, i + 1)

\* neat_add_genome_to_species: g is the position of the genome in gs, the
\* array pop->genomes
neat_add_genome_to_species(species, gs, g) ==
    LET members == Append(species.members, g)
        better == gs[g].fitness > species.best_fitness
    IN  [species EXCEPT
            !.members = members,
            !.best_fitness = IF better THEN gs[g].fitness ELSE @,
            !.staleness = IF better THEN 0 ELSE @,
            !.average_fitness = [num |-> SumFitness(gs, members, 1),
                                 den |-> Len(members)]]

\* fitness / member_count with no division
neat_adjust_fitness_Raw(gs, species) ==
    [k \in 1..Len(gs) |->
        IF k \in Range(species.members)
        THEN [gs[k] EXCEPT !.adjusted_fitness = FracOfInt(gs[k].fitness)]
        ELSE gs[k]]

\* neat_adjust_fitness: the genomes afterwards
neat_adjust_fitness(gs, species) ==
    [k \in 1..Len(gs) |->
        IF k \in Range(species.members)
        THEN [gs[k] EXCEPT !.adjusted_fitness =
                [num |-> gs[k].fitness, den |-> Len(species.members)]]
        ELSE gs[k]]

(* ------------------------- speciation ---------------------------------- *)
\* the species the inner loop of neat_speciate can stop at for genome g
Compatible(species, gs, g) ==
    {j \in 1..Len(species) :
        /\ Len(species[j].members) > 0
        /\ species[j].representative # 0
        /\ FracLess(neat_compatibility_distance(gs[g],
                                                gs[species[j].representative]),
                    FracOfInt(NEAT_COMPATIBILITY_THRESHOLD))}

NewSpecies(id, gs, g) ==
    neat_add_genome_to_species(
        [neat_create_species(id) EXCEPT !.representative = g], gs, g)

\* the loop with the inner loop keeping the last species found (no break)
RECURSIVE SpeciateFrom_LastFit(_, _, _)
SpeciateFrom_LastFit(acc, gs, i) ==
    IF i > Len(gs) THEN acc
    ELSE LET found == Compatible(acc.species, gs, i)
             last_found == CHOOSE x \in found : \A y \in found : y <= x
         IN  IF found # {}
             THEN SpeciateFrom_LastFit(
                    [acc EXCEPT !.species[last_found] =
                        neat_add_genome_to_species(@, gs, i)], gs, i + 1)
             ELSE SpeciateFrom_LastFit(
                    [species |-> Append(acc.species,
                                        NewSpecies(acc.next_species_id, gs, i)),
                     next_species_id |-> acc.next_species_id + 1], gs, i + 1)

\* the loop of neat_speciate over the genomes from position i on
RECURSIVE SpeciateFrom(_, _, _)
SpeciateFrom(acc, gs, i) ==
    IF i > Len(gs) THEN acc
    ELSE LET found == Compatible(acc.species, gs, i)
         IN  IF found # {}
             THEN SpeciateFrom(
                    [acc EXCEPT !.species[Min(found)] =
                        neat_add_genome_to_species(@, gs, i)], gs, i + 1)
             ELSE SpeciateFrom(
                    [species |-> Append(acc.species,
                                        NewSpecies(acc.next_species_id, gs, i)),
                     next_species_id |-> acc.next_species_id + 1], gs, i + 1)

HasMembers(species) == Len(species.members) # 0

\* neat_speciate: the species array and next_species_id afterwards; the
\* species of the call before are freed and none of their fields is kept
neat_speciate(next_species_id, gs) ==
    IF Len(gs) = 0 THEN [species |-> <<>>, next_species_id |-> next_species_id]
    ELSE LET r == SpeciateFrom(
                    [species |-> <<NewSpecies(next_species_id, gs, 1)>>,
                     next_species_id |-> next_species_id + 1], gs, 2)
         IN  [r EXCEPT !.species = SelectSeq(@, HasMembers)]

(* ------------------------- pruning ------------------------------------- *)
\* the sum of fabs(average_fitness) over the species from position i on
RECURSIVE TotalAvgFitness(_, _)
TotalAvgFitness(species, i) ==
    IF i > Len(species) THEN FracOfInt(0)
    ELSE LET a == species[i].average_fitness
             r == TotalAvgFitness(species, i + 1)
         IN  [num |-> Abs(a.num) * r.den + r.num * a.den, den |-> a.den * r.den]

\* (int)(fitness_ratio * population_size); nan is what the conversion
\* leaves when the ratio is 0/0
OffspringCount(sp, total, population_size, nan) ==
    IF total.num = 0 THEN nan
    ELSE (Abs(sp.average_fitness.num) * total.den * population_size)
            \div (sp.average_fitness.den * total.num)

Survives(sp, total, population_size, nan) ==
    OffspringCount(sp, total, population_size, nan) >= 1

\* neat_remove_weak_species: the species array afterwards
neat_remove_weak_species(species, population_size, nan) ==
    LET total == TotalAvgFitness(species, 1)
    IN  SelectSeq(species, LAMBDA sp : Survives(sp, total, population_size, nan))

(* ------------------------- reproduction -------------------------------- *)
\* the test new_genome_count <= population_size
RoomFor_OneMore(new_genomes, population_size) ==
    Len(new_genomes) <= population_size

\* the test new_genome_count < pop->population_size of neat_reproduce
RoomFor(new_genomes, population_size) ==
    Len(new_genomes) < population_size

\* the loop over k with the comparison turned round: an ascending sort
RECURSIVE SortInner_Ascending(_, _, _, _)
SortInner_Ascending(members, gs, j, k) ==
    IF k > Len(members) THEN members
    ELSE SortInner_Ascending(
            IF gs[members[j]].fitness > gs[members[k]].fitness
            THEN [members EXCEPT ![j] = members[k], ![k] = members[j]]
            ELSE members,
            gs, j, k + 1)

\* the loop over k of the sort of neat_reproduce
RECURSIVE SortInner(_, _, _, _)
SortInner(members, gs, j, k) ==
    IF k > Len(members) THEN members
    ELSE SortInner(
            IF gs[members[j]].fitness < gs[members[k]].fitness
            THEN [members EXCEPT ![j] = members[k], ![k] = members[j]]
            ELSE members,
            gs, j, k + 1)

\* the loop over j
RECURSIVE SortMembers(_, _, _)
SortMembers(members, gs, j) ==
    IF j > Len(members) - 1 THEN members
    ELSE SortMembers(SortInner(members, gs, j, j + 1), gs, j + 1)

\* the species holds a genome of the highest fitness in the population
HoldsBest(sp, gs) ==
    \E m \in Range(sp.members) : \A g \in 1..Len(gs) : gs[m].fitness >= gs[g].fitness

\* history of a genome made from a member of sp
Descent(sp, gs) ==
    [ever_best |-> sp.ever_best, stagnant |-> sp.stagnant,
     holds_best |-> HoldsBest(sp, gs)]

\* the elite loop of neat_reproduce from species i on: acc holds the
\* species (their members sorted), the new genomes and their history
RECURSIVE CarryElites(_, _, _, _)
CarryElites(acc, gs, population_size, i) ==
    IF i > Len(acc.species) \/ ~RoomFor(acc.new_genomes, population_size)
    THEN acc
    ELSE LET members == SortMembers(acc.species[i].members, gs, 1)
             sp == [acc.species[i] EXCEPT !.members = members]
         IN  CarryElites(
                [species |-> [acc.species EXCEPT ![i] = sp],
                 new_genomes |->
                    IF Len(members) > 0
                    THEN Append(acc.new_genomes,
                                neat_clone_genome(gs[members[1]], Junk(0)))
                    ELSE acc.new_genomes,
                 new_lineage |->
                    IF Len(members) > 0
                    THEN Append(acc.new_lineage, Descent(sp, gs))
                    ELSE acc.new_lineage],
                gs, population_size, i + 1)

\* the species the selection loop can end on: r is uniform on
\* [0, total_avg_fitness], and the last species takes what is left
Selectable(species) ==
    {k \in 1..Len(species) :
        \/ k = Len(species)
        \/ species[k].average_fitness.num # 0
        \/ k = 1}

\* the first tournament: d holds the three draws of neat_random_int;
\* the result is a position in members
RECURSIVE Tournament(_, _, _, _, _)
Tournament(members, gs, d, i, parent1) ==
    IF i > Len(d) THEN parent1
    ELSE Tournament(members, gs, d, i + 1,
            IF parent1 = 0 \/ gs[members[d[i]]].fitness > gs[parent1].fitness
            THEN members[d[i]] ELSE parent1)

\* the second tournament (0: parent2 stays NULL)
RECURSIVE Tournament2(_, _, _, _, _, _)
Tournament2(members, gs, d, i, parent1, parent2) ==
    IF i > Len(d) THEN parent2
    ELSE Tournament2(members, gs, d, i + 1, parent1,
            IF (parent2 = 0 \/ gs[members[d[i]]].fitness > gs[parent2].fitness)
               /\ members[d[i]] # parent1
            THEN members[d[i]] ELSE parent2)

TournamentDraws(members) == [1..3 -> 1..Len(members)]

\* the draws of one call of neat_mutate in which at most one of the five
\* tests neat_random_uniform(0, 1) < rate succeeds
NoMutation == [gate |-> "none", a |-> 0, b |-> 0, c |-> 0, d |-> 0]
MutateDraws(genome) ==
    {m \in {[gate |-> "weights", a |-> c, b |-> w, c |-> n, d |-> b] :
                c \in 0..connection_count(genome), w \in WeightDraws,
                n \in 0..node_count(genome), b \in BiasDraws} :
        m.a = 0 \/ m.c = 0}
    \cup {[gate |-> "node", a |-> c, b |-> b, c |-> 0, d |-> 0] :
            c \in (IF node_count(genome) < MaxNodes
                   THEN EnabledIdx(genome)
                        \cup (IF DisabledIdx(genome) # {} THEN {-1} ELSE {})
                   ELSE {}),
            b \in BiasDraws}
    \cup {[gate |-> "link", a |-> from, b |-> to, c |-> w, d |-> 0] :
            from \in 0..(node_count(genome) - 1),
            to \in 0..(node_count(genome) - 1), w \in WeightDraws}
    \cup {[gate |-> "toggle", a |-> c, b |-> target, c |-> 0, d |-> 0] :
            c \in EnabledIdx(genome) \cup {-1},
            target \in 0..Max(0, Cardinality(DisabledIdx(genome)) - 1)}
    \cup {[gate |-> "activation", a |-> n, b |-> kind, c |-> 0, d |-> 0] :
            n \in 0..(node_count(genome) - 1), kind \in ActDraws}

\* neat_mutate under the draws m: [g |-> the genome, t |-> the table]
neat_mutate(genome, table, m) ==
    CASE m.gate = "weights" ->
           [g |-> neat_mutate_weights(genome,
                    [k \in 1..connection_count(genome) |->
                        IF k = m.a THEN m.b ELSE genome.connections[k].weight],
                    [k \in 1..node_count(genome) |->
                        IF k = m.c THEN m.d ELSE genome.nodes[k].bias]),
            t |-> table]
      [] m.gate = "node" -> neat_mutate_add_node(genome, table, m.a, m.b, 0)
      [] m.gate = "link" -> neat_mutate_add_connection(genome, table, m.a, m.b, m.c)
      [] m.gate = "toggle" ->
           [g |-> neat_mutate_toggle_connection(genome, m.a, m.b), t |-> table]
      [] m.gate = "activation" ->
           [g |-> neat_mutate_activation(genome, m.a, m.b), t |-> table]
      [] OTHER -> [g |-> genome, t |-> table]

(* ------------------------- population bootstrap ------------------------ *)
\* the genome loop body of neat_create_population: w is the weight every
\* initial connection of this genome draws, b the bias every node draws
RECURSIVE AddInitialNodes(_, _, _, _, _)
AddInitialNodes(genome, n, type, placement, b) ==
    IF n = 0 THEN genome
    ELSE AddInitialNodes(neat_add_node(genome, type, placement, b),
                         n - 1, type, placement, b)

\* one pass of the inner loop over (in, out): pair number k, row by row
InitialConnection(gt, input_size, output_size, k, w) ==
    LET in == k \div output_size
        out_node_id == input_size + 1 + (k % output_size)
        g1 == neat_add_connection(gt.g, in, out_node_id, w, TRUE)
        r == neat_get_innovation(gt.t, in, out_node_id, FALSE, 0)
    IN  [g |-> SetInnovation(g1, 1, r.n), t |-> r.t]

\* the two nested loops over (in, out), row by row, from pair number k
RECURSIVE AddInitialConnections(_, _, _, _, _, _)
AddInitialConnections(gt, input_size, output_size, k, w, unused) ==
    IF k >= (input_size + 1) * output_size THEN gt
    ELSE AddInitialConnections(
            InitialConnection(gt, input_size, output_size, k, w),
            input_size, output_size, k + 1, w, unused)

\* the genome of neat_create_population before its connection loop
InitialNodes(id, input_size, output_size, b, junk) ==
    LET g0 == neat_create_genome(id, junk)
        g1 == AddInitialNodes(g0, input_size, "INPUT", NEAT_PLACEMENT_INPUT, b)
        g2 == neat_add_node(g1, "BIAS", NEAT_PLACEMENT_INPUT, b)
    IN  AddInitialNodes(g2, output_size, "OUTPUT", NEAT_PLACEMENT_OUTPUT, b)

InitialGenome(id, table, input_size, output_size, w, b, junk) ==
    AddInitialConnections(
        [g |-> InitialNodes(id, input_size, output_size, b, junk), t |-> table],
        input_size, output_size, 0, w, 0)

\* the genomes and the table neat_create_population builds, before it
\* calls neat_speciate
RECURSIVE InitialGenomes(_, _, _, _, _, _, _)
InitialGenomes(acc, i, population_size, input_size, output_size, ws, junk) ==
    IF i >= population_size THEN acc
    ELSE LET r == InitialGenome(i, acc.t, input_size, output_size, ws[i + 1], 0, junk)
         IN InitialGenomes([gs |-> Append(acc.gs, r.g), t |-> r.t], i + 1,
                           population_size, input_size, output_size, ws, junk)

(* ------------------------- state --------------------------------------- *)
VARIABLES
    genomes,    \* the genomes under the operations of the genome API
    table,      \* the innovation table they share
    ops,        \* operations applied so far
    last,       \* the last operation: its name, genome, arguments, result
    splits,     \* the node splits made so far: endpoints and ids given
    dist,       \* the last distances neat_compatibility_distance returned
    inputs,     \* the array handed to the last neat_evaluate
    outputs,    \* the array the last neat_evaluate wrote
    pop,        \* the fields of neat_population_t but genomes and the table
    pc,         \* where the running neat_evolve stands ("idle": no call runs)
    loc,        \* the locals of the function neat_evolve is in
    gens,       \* calls of neat_evolve the run may still make
    lineage,    \* per genome: the history of the species it descends from
    g_random_seed, \* the state of the generator: the seed and the draws taken
    twin,       \* a second run of the program, for comparing two runs
    threads     \* neat_evaluate_parallel: its locals and its workers

genomeVars == <<genomes, table, ops, last, splits>>
callVars == <<dist, inputs, outputs>>
runVars == <<g_random_seed, twin, threads>>
evolveVars == <<pop, pc, loc, gens, lineage, g_random_seed, twin, threads>>
vars == <<genomes, table, ops, last, splits, dist, inputs, outputs,
          pop, pc, loc, gens, lineage, g_random_seed, twin, threads>>

\* genomes the genome specifications hold
Slots == {1, 2}
NumGenomes == Cardinality(Slots)
GenomeFitness == {0, 2}
NoOp == [op |-> "init", g |-> 0, a |-> -1, b |-> -1, rc |-> 0]
NoDist == [i |-> 0, j |-> 0, ab |-> FracOfInt(0), ba |-> FracOfInt(0)]
NoLoc == [i |-> 0, new_genomes |-> <<>>, new_lineage |-> <<>>]
NoPop == [species |-> <<>>, population_size |-> 0, generation |-> 0,
          max_fitness_achieved |-> 0, evaluate_genome |-> FALSE]

\* the generator as the program starts (neat.c:21), no second run, no
\* call of neat_evaluate_parallel
NoSeed == [seed |-> 1, draws |-> 0]
NoTwin == [genomes |-> <<>>]
NoThreads == [num_threads |-> 0]
NoRuns ==
    /\ g_random_seed = NoSeed
    /\ twin = NoTwin
    /\ threads = NoThreads

\* no population is in use
NoEvolve ==
    /\ NoRuns
    /\ pop = NoPop
    /\ pc = "idle"
    /\ loc = NoLoc
    /\ gens = 0
    /\ lineage = <<>>

InitGenomes ==
    /\ \E ws \in {w \in [Slots -> WeightDraws] : w[1] = 4} :
         LET r == InitialGenomes([gs |-> <<>>, t |-> neat_create_innovation_table],
                                 0, NumGenomes, InputSize, OutputSize, ws, Junk(0))
         IN  genomes = r.gs /\ table = r.t
    /\ last = NoOp
    /\ splits = {}
    /\ dist = NoDist
    /\ inputs = <<>>
    /\ outputs = <<>>

\* ops counts the operations the run may still apply
InitMut == InitGenomes /\ ops = MaxMutOps /\ NoEvolve
InitApi == InitGenomes /\ ops = MaxOps /\ NoEvolve

Budget == ops > 0
Step(op, g, a, b, rc) ==
    /\ ops' = ops - 1
    /\ last' = [op |-> op, g |-> g, a |-> a, b |-> b, rc |-> rc]
    /\ UNCHANGED callVars
    /\ UNCHANGED runVars
    /\ UNCHANGED evolveVars

\* One call of neat_mutate_weights.  The calls enumerated are those whose
\* draws change at most one weight or one bias (c, n = 0: none).
MutateWeights(i) ==
    /\ Budget
    /\ \E c \in 0..connection_count(genomes[i]), w \in WeightDraws,
          n \in 0..node_count(genomes[i]), b \in BiasDraws :
         /\ c = 0 \/ n = 0
         /\ c = 0 => w = 4
         /\ n = 0 => b = 1
         /\ genomes' = [genomes EXCEPT ![i] =
            neat_mutate_weights(@,
                [k \in 1..connection_count(@) |->
                    IF k = c THEN w ELSE @.connections[k].weight],
                [k \in 1..node_count(@) |->
                    IF k = n THEN b ELSE @.nodes[k].bias])]
    /\ Step("mutate_weights", i, -1, -1, 0)
    /\ UNCHANGED <<table, splits>>

MutateAddConnection(i) ==
    /\ Budget
    /\ \E from \in 0..(node_count(genomes[i]) - 1),
          to \in 0..(node_count(genomes[i]) - 1), w \in WeightDraws :
         LET r == neat_mutate_add_connection(genomes[i], table, from, to, w)
         IN  /\ genomes' = [genomes EXCEPT ![i] = r.g]
             /\ table' = r.t
             /\ Step("mutate_add_connection", i, from, to,
                     connection_count(r.g) - connection_count(genomes[i]))
    /\ UNCHANGED splits

\* the connections the search loop of neat_mutate_add_node can end on
SplitChoices(genome) ==
    EnabledIdx(genome) \cup (IF DisabledIdx(genome) # {} THEN {-1} ELSE {})

\* what conn_to_split->out_node can read once the array has moved: what
\* the freed block still holds, or what the allocator wrote over it
StaleReads(genome, c) ==
    IF Reallocates(genome) /\ c # -1
    THEN {genome.connections[c + 1].out_node} \cup JunkValues
    ELSE {0}

\* one call of neat_mutate_add_node on genomes[i]
SplitNode(i) ==
    /\ Budget
    /\ \E c \in SplitChoices(genomes[i]), b \in BiasDraws :
       \E stale \in StaleReads(genomes[i], c) :
         LET g == genomes[i]
             r == neat_mutate_add_node(g, table, c, b, stale)
             n == connection_count(r.g)
         IN  /\ genomes' = [genomes EXCEPT ![i] = r.g]
             /\ table' = r.t
             /\ splits' = IF c = -1 THEN splits
                          ELSE splits \cup
                               {[g |-> i,
                                 in_node |-> g.connections[c + 1].in_node,
                                 out_node |-> g.connections[c + 1].out_node,
                                 node |-> node_count(r.g) - 1,
                                 innovation1 |-> r.g.connections[n - 1].innovation,
                                 innovation2 |-> r.g.connections[n].innovation]}
             /\ Step("mutate_add_node", i, c, -1, node_count(r.g) - node_count(g))

MutateAddNode(i) ==
    /\ node_count(genomes[i]) < MaxNodes
    /\ SplitNode(i)

MutateToggle(i) ==
    /\ Budget
    /\ \E c \in EnabledIdx(genomes[i]) \cup {-1},
          target \in 0..Max(0, Cardinality(DisabledIdx(genomes[i])) - 1) :
         /\ c # -1 => target = 0
         /\ genomes' = [genomes EXCEPT ![i] =
                            neat_mutate_toggle_connection(@, c, target)]
         /\ Step("mutate_toggle_connection", i, c, -1, 0)
    /\ UNCHANGED <<table, splits>>

MutateActivation(i) ==
    /\ Budget
    /\ \E n \in 0..(node_count(genomes[i]) - 1), kind \in ActDraws :
         /\ genomes' = [genomes EXCEPT ![i] = neat_mutate_activation(@, n, kind)]
         /\ Step("mutate_activation", i, -1, -1, 0)
    /\ UNCHANGED <<table, splits>>

\* connections with an endpoint that is no node of the genome
Dangling(genome) ==
    {p \in 1..connection_count(genome) :
        \/ genome.connections[p].in_node >= node_count(genome)
        \/ genome.connections[p].out_node >= node_count(genome)}

\* the caller assigns genome->fitness (tests/test_neat.c:285)
SetFitness(i) ==
    /\ Budget
    /\ \E f \in GenomeFitness :
         /\ f # genomes[i].fitness
         /\ genomes' = [genomes EXCEPT ![i].fitness = f]
    /\ Step("set_fitness", i, -1, -1, 0)
    /\ UNCHANGED <<table, splits>>

\* child = neat_crossover(genomes[i], genomes[j]) takes the place of genomes[k]
Crossover(i, j, k) ==
    /\ Budget
    /\ i # j
    /\ \E take \in SUBSET (1..connection_count(Fitter(genomes[i], genomes[j]))),
          extra \in SUBSET (1..connection_count(Other(genomes[i], genomes[j]))) :
         LET fitter == Fitter(genomes[i], genomes[j])
             other == Other(genomes[i], genomes[j])
         IN  /\ \A x \in take : MatchIdx(other, fitter.connections[x]) # {}
             /\ \A x \in extra : MatchIdx(fitter, other.connections[x]) = {}
             /\ \E junk \in JunkValues :
                  LET child == neat_crossover(genomes[i], genomes[j], take,
                                              extra, Junk(junk))
                  IN  /\ Dangling(child) = {} => junk = 0
                      /\ genomes' = [genomes EXCEPT ![k] = child]
    /\ Step("crossover", k, i, j, 0)
    /\ UNCHANGED <<table, splits>>

NextMut ==
    \/ \E i \in Slots : MutateWeights(i)
    \/ \E i \in Slots : MutateAddConnection(i)
    \/ \E i \in Slots : MutateAddNode(i)
    \/ \E i \in Slots : MutateToggle(i)
    \/ \E i \in Slots : MutateActivation(i)
    \/ \E i \in Slots : SetFitness(i)
    \/ \E i, j, k \in Slots : Crossover(i, j, k)

SpecMut == InitMut /\ [][NextMut]_vars


(* ------------------------- a split at capacity ------------------------- *)
\* the input_size for which the initial connections of a genome (one per
\* input and one for the bias, to the one output) fill the connection array
SplitInputs == NEAT_DEFAULT_ALLOC_SIZE - 1

\* neat_create_population(SplitInputs, 1, 1) after neat_create_genome for
\* its one genome; loc.i counts the passes of the loop it is in
InitSplit ==
    /\ genomes = <<neat_create_genome(0, Junk(0))>>
    /\ table = neat_create_innovation_table
    /\ last = NoOp
    /\ splits = {}
    /\ dist = NoDist
    /\ inputs = <<>>
    /\ outputs = <<>>
    /\ ops = MaxSplits
    /\ pop = NoPop
    /\ pc = "create_nodes"
    /\ loc = NoLoc
    /\ gens = 0
    /\ lineage = <<>>
    /\ NoRuns

\* one neat_add_node of neat_create_population (the inputs, the bias node,
\* the output), or the end of its node loops
CreateNode ==
    /\ pc = "create_nodes"
    /\ IF loc.i < SplitInputs + 2
       THEN /\ genomes' = <<IF loc.i < SplitInputs
                             THEN neat_add_node(genomes[1], "INPUT",
                                                NEAT_PLACEMENT_INPUT, 0)
                             ELSE IF loc.i = SplitInputs
                                  THEN neat_add_node(genomes[1], "BIAS",
                                                     NEAT_PLACEMENT_INPUT, 0)
                                  ELSE neat_add_node(genomes[1], "OUTPUT",
                                                     NEAT_PLACEMENT_OUTPUT, 0)>>
            /\ loc' = [loc EXCEPT !.i = @ + 1]
            /\ pc' = pc
       ELSE /\ pc' = "create"
            /\ loc' = NoLoc
            /\ UNCHANGED genomes
    /\ UNCHANGED <<table, ops, last, splits, pop, gens, lineage>>
    /\ UNCHANGED callVars
    /\ UNCHANGED runVars

\* one pass of the connection loop of neat_create_population, or its end.
\* The weights enumerated are those in which every connection draws the
\* weight of the first.
CreateConnection ==
    /\ pc = "create"
    /\ IF loc.i < (SplitInputs + 1) * 1
       THEN \E w \in (IF loc.i = 0 THEN WeightDraws
                       ELSE {genomes[1].connections[1].weight}) :
              LET r == InitialConnection([g |-> genomes[1], t |-> table],
                                         SplitInputs, 1, loc.i, w)
              IN  /\ genomes' = <<r.g>>
                  /\ table' = r.t
                  /\ loc' = [loc EXCEPT !.i = @ + 1]
                  /\ pc' = pc
       ELSE /\ pc' = "idle"
            /\ loc' = NoLoc
            /\ UNCHANGED <<genomes, table>>
    /\ UNCHANGED <<ops, last, splits, pop, gens, lineage>>
    /\ UNCHANGED callVars
    /\ UNCHANGED runVars

\* neat_mutate_add_node on the genome of the population made
SplitCreated ==
    /\ pc = "idle"
    /\ \E i \in 1..Len(genomes) : SplitNode(i)

NextSplit ==
    \/ CreateNode
    \/ CreateConnection
    \/ SplitCreated

SpecSplit == InitSplit /\ [][NextSplit]_vars

(* ------------------------- the genome API called directly -------------- *)
NodeKinds ==
    {<<"INPUT", NEAT_PLACEMENT_INPUT>>, <<"HIDDEN", NEAT_PLACEMENT_HIDDEN>>,
     <<"OUTPUT", NEAT_PLACEMENT_OUTPUT>>, <<"BIAS", NEAT_PLACEMENT_INPUT>>}

AddNode(i) ==
    /\ Budget
    /\ node_count(genomes[i]) < MaxNodes
    /\ \E k \in NodeKinds, b \in BiasDraws :
         genomes' = [genomes EXCEPT ![i] = neat_add_node(@, k[1], k[2], b)]
    /\ Step("add_node", i, -1, -1, node_count(genomes[i]))
    /\ UNCHANGED <<table, splits>>

AddConnection(i) ==
    /\ Budget
    /\ \E in \in 0..(node_count(genomes[i]) - 1),
          out \in 0..(node_count(genomes[i]) - 1), enabled \in BOOLEAN :
         /\ genomes' = [genomes EXCEPT ![i] =
                            neat_add_connection(@, in, out, 4, enabled)]
         /\ Step("add_connection", i, in, out,
                 neat_add_connection_rc(genomes[i], in, out))
    /\ UNCHANGED <<table, splits>>

\* the caller's own calls are made on the first genome
NextApi ==
    \/ NextMut
    \/ AddNode(1)
    \/ AddConnection(1)

SpecApi == InitApi /\ [][NextApi]_vars

(* ------------------------- evaluating a genome ------------------------- *)
\* neat_evaluate(genomes[i], x, outputs) with an array x that has a value
\* for every input node; last.rc is 2 when the call repeats the call before
\* it (same genome, same inputs), else 1
Evaluate(i) ==
    /\ \E x \in [1..Cardinality(NodesOfType(genomes[i], "INPUT")) -> InputValues] :
         /\ genomes' = [genomes EXCEPT ![i] = neat_evaluate(@, x)]
         /\ inputs' = x
         /\ outputs' = neat_evaluate_outputs(genomes[i], x)
    /\ last' = [op |-> "evaluate", g |-> i, a |-> -1, b |-> -1,
                rc |-> IF last.op = "evaluate" /\ last.g = i /\ inputs' = inputs
                       THEN 2 ELSE 1]
    /\ UNCHANGED <<table, ops, splits, dist>>
    /\ UNCHANGED evolveVars

\* the caller evaluates the first genome
NextAct ==
    \/ NextApi
    \/ Evaluate(1)

SpecAct == InitApi /\ [][NextAct]_vars

\* the genomes the population makes (mutations and crossover, none of the
\* caller's own neat_add_node and neat_add_connection), evaluated
NextEval ==
    \/ NextMut
    \/ Evaluate(1)

SpecEval == InitApi /\ [][NextEval]_vars

(* ------------------------- comparing two genomes ----------------------- *)
\* innovation ids of the connections compared: -1 is what neat_crossover
\* leaves on the connections of a child
CompatInnovations == {-1, 2, 4}

\* connection lists of up to MaxGenes connections, innovation ids in any
\* order; an id the table gave occurs once in a genome
GeneLists ==
    UNION {{[k \in 1..n |-> neat_create_connection(is[k], 0, k, ws[k], TRUE)] :
                is \in {f \in [1..n -> CompatInnovations] :
                          \A a, b \in 1..n : (f[a] = f[b] /\ f[a] # -1) => a = b},
                ws \in [1..n -> WeightDraws]} : n \in 0..MaxGenes}

GenomeOf(id, list) ==
    [neat_create_genome(id, Junk(0)) EXCEPT !.connections = list]

InitCompat ==
    /\ \E l1 \in GeneLists, l2 \in GeneLists :
         genomes = <<GenomeOf(0, l1), GenomeOf(1, l2)>>
    /\ table = neat_create_innovation_table
    /\ ops = 0
    /\ last = NoOp
    /\ splits = {}
    /\ dist = NoDist
    /\ inputs = <<>>
    /\ outputs = <<>>
    /\ NoEvolve

\* the caller compares genomes[i] with genomes[j], and genomes[j] with
\* genomes[i]
CompatibilityDistance(i, j) ==
    /\ dist' = [i |-> i, j |-> j,
                ab |-> neat_compatibility_distance(genomes[i], genomes[j]),
                ba |-> neat_compatibility_distance(genomes[j], genomes[i])]
    /\ UNCHANGED <<genomes, table, ops, last, splits, inputs, outputs>>
    /\ UNCHANGED evolveVars

NextCompat == \E i, j \in Slots : CompatibilityDistance(i, j)

SpecCompat == InitCompat /\ [][NextCompat]_vars

(* ------------------------- one generation: neat_evolve ----------------- *)
PopulationSize == NumGenomes
NoDescent == [ever_best |-> NoFitness, stagnant |-> 0, holds_best |-> FALSE]

\* the state neat_create_population returns; callbacks: the values the
\* caller may leave in pop->evaluate_genome (FALSE: NULL).
\* members_generation is no field of neat_population_t: it is the value
\* pop->generation had when neat_speciate built the species, that is, the
\* generation whose genomes the member and representative pointers of
\* pop->species point to.
InitPopulation(callbacks) ==
    /\ \E ws \in {w \in [1..PopulationSize -> WeightDraws] : w[1] = 4},
          m \in MfaInit, cb \in callbacks :
         LET r == InitialGenomes([gs |-> <<>>, t |-> neat_create_innovation_table],
                                 0, PopulationSize, InputSize, OutputSize, ws,
                                 Junk(0))
             sp == neat_speciate(r.t.next_species_id, r.gs)
         IN  /\ genomes = r.gs
             /\ table = [r.t EXCEPT !.next_species_id = sp.next_species_id]
             /\ pop = [species |-> sp.species, population_size |-> PopulationSize,
                       generation |-> 0, max_fitness_achieved |-> m,
                       evaluate_genome |-> cb, members_generation |-> 0]
    /\ last = NoOp
    /\ splits = {}
    /\ dist = NoDist
    /\ inputs = <<>>
    /\ outputs = <<>>
    /\ pc = "idle"
    /\ loc = NoLoc
    /\ lineage = [k \in 1..PopulationSize |-> NoDescent]
    /\ NoRuns

InitEvolve == InitPopulation(BOOLEAN) /\ ops = MaxOps /\ gens = MaxGenerations
InitStagnate == InitPopulation({FALSE}) /\ ops = MaxOps /\ gens = MaxStagnantRun

\* the caller assigns pop->genomes[i]->fitness between two generations
AssignFitness(i) ==
    /\ pc = "idle"
    /\ Budget
    /\ \E f \in FitnessDraws :
         /\ f # genomes[i].fitness
         /\ genomes' = [genomes EXCEPT ![i].fitness = f]
    /\ ops' = ops - 1
    /\ last' = [op |-> "assign_fitness", g |-> i, a |-> -1, b |-> -1, rc |-> 0]
    /\ UNCHANGED <<table, splits>>
    /\ UNCHANGED callVars
    /\ UNCHANGED runVars
    /\ UNCHANGED evolveVars

\* the caller calls neat_adjust_fitness(pop->species[k - 1]) on the
\* population neat_create_population returned (neat_reproduce frees the
\* genomes the species point to)
AdjustFitness(k) ==
    /\ pc = "idle"
    /\ pop.generation = 0
    /\ k \in 1..Len(pop.species)
    /\ genomes' = neat_adjust_fitness(genomes, pop.species[k])
    /\ last' = [op |-> "adjust_fitness", g |-> k, a |-> -1, b |-> -1, rc |-> 0]
    /\ UNCHANGED <<table, ops, splits>>
    /\ UNCHANGED callVars
    /\ UNCHANGED runVars
    /\ UNCHANGED evolveVars

\* the loop of neat_evolve over the values fs the callback returned
RECURSIVE UpdateMax(_, _, _)
UpdateMax(fs, i, max_fitness_achieved) ==
    IF i > Len(fs) THEN max_fitness_achieved
    ELSE UpdateMax(fs, i + 1,
            IF FitnessAbove(fs[i], max_fitness_achieved)
            THEN TruncToInt(fs[i]) ELSE max_fitness_achieved)

\* the loop of neat_evolve that calls neat_adjust_fitness
RECURSIVE AdjustAll(_, _, _)
AdjustAll(gs, species, i) ==
    IF i > Len(species) THEN gs
    ELSE AdjustAll(neat_adjust_fitness(gs, species[i]), species, i + 1)

\* the history fields of a species neat_speciate has just built
Track(sp, history) ==
    LET before == history[sp.representative]
        rose == sp.best_fitness > before.ever_best
    IN  [sp EXCEPT
            !.ever_best = IF rose THEN sp.best_fitness ELSE before.ever_best,
            !.stagnant = IF rose THEN 0
                         ELSE IF before.stagnant > NEAT_DEFAULT_STAGNATION_LIMIT
                              THEN before.stagnant ELSE before.stagnant + 1]

\* neat_evolve up to the call of neat_remove_stale_species: the callback,
\* neat_speciate, neat_adjust_fitness
EvolveStart ==
    /\ pc = "idle"
    /\ gens > 0
    /\ \E fs \in [1..Len(genomes) -> FitnessDraws] :
         LET gs1 == [k \in 1..Len(genomes) |-> [genomes[k] EXCEPT !.fitness = fs[k]]]
             sp == neat_speciate(table.next_species_id, gs1)
             species == [j \in 1..Len(sp.species) |-> Track(sp.species[j], lineage)]
         IN  /\ pop.evaluate_genome \/ \A k \in 1..Len(genomes) : fs[k] = genomes[k].fitness
             /\ genomes' = AdjustAll(gs1, species, 1)
             /\ table' = [table EXCEPT !.next_species_id = sp.next_species_id]
             /\ pop' = [pop EXCEPT
                          !.species = species,
                          !.members_generation = pop.generation,
                          !.max_fitness_achieved =
                              IF pop.evaluate_genome THEN UpdateMax(fs, 1, @) ELSE @]
    /\ pc' = "remove_stale"
    /\ loc' = NoLoc
    /\ gens' = gens - 1
    /\ last' = [op |-> "evolve", g |-> 0, a |-> -1, b |-> -1, rc |-> 0]
    /\ UNCHANGED <<ops, splits, lineage>>
    /\ UNCHANGED callVars
    /\ UNCHANGED runVars

\* one pass of the loop of neat_remove_stale_species at index i:
\* [p |-> the population, i |-> the index afterwards]
RemoveStaleIteration(p, i) ==
    LET sp == p.species[i + 1]
        improved == FitnessAbove(sp.best_fitness, p.max_fitness_achieved)
    IN  [p |-> [p EXCEPT
                  !.species[i + 1].staleness = IF improved THEN 0 ELSE @ + 1,
                  !.max_fitness_achieved =
                      IF improved THEN TruncToInt(sp.best_fitness) ELSE @],
         i |-> IF improved THEN i ELSE i + 1]

\* neat_remove_stale_species: one pass of its loop, or its return
RemoveStaleStep ==
    /\ pc = "remove_stale"
    /\ IF loc.i < Len(pop.species)
       THEN LET r == RemoveStaleIteration(pop, loc.i)
            IN  /\ pop' = r.p
                /\ loc' = [loc EXCEPT !.i = r.i]
                /\ pc' = pc
       ELSE /\ pc' = "remove_weak"
            /\ loc' = NoLoc
            /\ pop' = pop
    /\ UNCHANGED <<genomes, table, ops, last, splits, gens, lineage>>
    /\ UNCHANGED callVars
    /\ UNCHANGED runVars

RemoveWeak ==
    /\ pc = "remove_weak"
    /\ \E nan \in NanToInt :
         pop' = [pop EXCEPT !.species =
                    neat_remove_weak_species(@, pop.population_size, nan)]
    /\ pc' = "reproduce"
    /\ UNCHANGED <<genomes, table, ops, last, splits, loc, gens, lineage>>
    /\ UNCHANGED callVars
    /\ UNCHANGED runVars

\* neat_reproduce up to its while loop
ReproduceElites ==
    /\ pc = "reproduce"
    /\ LET acc == CarryElites([species |-> pop.species, new_genomes |-> <<>>,
                               new_lineage |-> <<>>],
                              genomes, pop.population_size, 1)
       IN  /\ pop' = [pop EXCEPT !.species = acc.species]
           /\ loc' = [i |-> 0, new_genomes |-> acc.new_genomes,
                      new_lineage |-> acc.new_lineage]
    /\ pc' = "offspring"
    /\ UNCHANGED <<genomes, table, ops, last, splits, gens, lineage>>
    /\ UNCHANGED callVars
    /\ UNCHANGED runVars

\* the children neat_crossover can return for the two parents
Crossovers(parent1, parent2) ==
    LET fitter == Fitter(parent1, parent2)
        other == Other(parent1, parent2)
    IN  {neat_crossover(parent1, parent2, take, extra, Junk(0)) :
            take \in SUBSET {x \in 1..connection_count(fitter) :
                                MatchIdx(other, fitter.connections[x]) # {}},
            extra \in SUBSET {x \in 1..connection_count(other) :
                                MatchIdx(fitter, other.connections[x]) = {}}}

\* one pass of the while loop of neat_reproduce
ReproduceOffspring ==
    /\ pc = "offspring"
    /\ RoomFor(loc.new_genomes, pop.population_size)
    /\ IF pop.species = <<>>
       THEN UNCHANGED <<table, ops, loc>>
       ELSE \E k \in Selectable(pop.species) :
              LET members == pop.species[k].members IN
              \E parent1 \in {Tournament(members, genomes, d, 1, 0) :
                                d \in TournamentDraws(members)} :
              \E parent2 \in {0} \cup {Tournament2(members, genomes, d, 1, parent1, 0) :
                                        d \in TournamentDraws(members)} :
              \E offspring \in (IF parent2 = 0
                                THEN {neat_clone_genome(genomes[parent1], Junk(0))}
                                ELSE Crossovers(genomes[parent1], genomes[parent2])) :
              \E m \in {NoMutation}
                       \cup (IF Budget THEN MutateDraws(offspring) ELSE {}) :
                LET r == neat_mutate(offspring, table, m)
                IN  /\ loc' = [loc EXCEPT
                                !.new_genomes = Append(@, r.g),
                                !.new_lineage =
                                    Append(@, Descent(pop.species[k], genomes))]
                    /\ table' = r.t
                    /\ ops' = IF m = NoMutation THEN ops ELSE ops - 1
    /\ UNCHANGED <<genomes, last, splits, pop, pc, gens, lineage>>
    /\ UNCHANGED callVars
    /\ UNCHANGED runVars

\* the end of neat_reproduce, and the return of neat_evolve
ReproduceFinish ==
    /\ pc = "offspring"
    /\ ~RoomFor(loc.new_genomes, pop.population_size)
    /\ genomes' = loc.new_genomes
    /\ lineage' = loc.new_lineage
    /\ pop' = [pop EXCEPT !.generation = @ + 1]
    /\ pc' = "idle"
    /\ loc' = NoLoc
    /\ UNCHANGED <<table, ops, last, splits, gens>>
    /\ UNCHANGED callVars
    /\ UNCHANGED runVars

\* the steps of a call of neat_evolve that is under way
EvolveSteps ==
    \/ RemoveStaleStep
    \/ RemoveWeak
    \/ ReproduceElites
    \/ ReproduceOffspring
    \/ ReproduceFinish

NextEvolve ==
    \/ \E i \in 1..Len(genomes) : AssignFitness(i)
    \/ \E k \in 1..PopulationSize : AdjustFitness(k)
    \/ EvolveStart
    \/ RemoveStaleStep
    \/ RemoveWeak
    \/ ReproduceElites
    \/ ReproduceOffspring
    \/ ReproduceFinish

SpecEvolve == InitEvolve /\ [][NextEvolve]_vars
SpecEvolveFair == InitEvolve /\ [][NextEvolve]_vars /\ WF_vars(EvolveSteps)
SpecStagnate == InitStagnate /\ [][NextEvolve]_vars

(* ------------------------- neat_evaluate_parallel (parallel.c) --------- *)
\* values the callback evaluate_func returns, in halves
ParFitness == {0, 2}

\* thread_data[i].end_idx without the share of the remainder
EndIdx_NoRemainder(current_idx, genomes_per_thread, i, remaining) ==
    current_idx + genomes_per_thread

\* thread_data[i].end_idx
EndIdx(current_idx, genomes_per_thread, i, remaining) ==
    current_idx + genomes_per_thread + (IF i < remaining THEN 1 ELSE 0)

\* num_threads after the cap at genome_count
CapThreads(num_threads, genome_count) ==
    IF num_threads > genome_count THEN genome_count ELSE num_threads

\* history of the call: per genome, the threads that called evaluate_func
\* on it and the threads that wrote its fitness, in order (0: the caller's
\* thread, t: the worker of thread_data[t - 1])
NoCalls(genome_count) == [g \in 1..genome_count |-> <<>>]

\* neat_evaluate_parallel(pop, evaluate_func, user_data, num_threads) is
\* entered with a population of 1..MaxParGenomes genomes and num_threads in
\* 1..MaxThreads
InitParallel ==
    /\ \E n \in 1..MaxParGenomes, num_threads \in 1..MaxThreads :
         LET r == InitialGenomes([gs |-> <<>>, t |-> neat_create_innovation_table],
                                 0, n, InputSize, OutputSize,
                                 [k \in 1..n |-> 4], Junk(0))
         IN  /\ genomes = r.gs
             /\ table = r.t
             /\ pop = [NoPop EXCEPT !.population_size = n]
             /\ threads = [num_threads |-> num_threads, genomes_per_thread |-> 0,
                           remaining |-> 0, current_idx |-> 0,
                           thread_data |-> <<>>, mutex |-> 0,
                           evaluated |-> NoCalls(n), written |-> NoCalls(n)]
    /\ last = NoOp
    /\ splits = {}
    /\ dist = NoDist
    /\ inputs = <<>>
    /\ outputs = <<>>
    /\ ops = 0
    /\ pc = "parallel_call"
    /\ loc = NoLoc
    /\ gens = 0
    /\ lineage = <<>>
    /\ g_random_seed = NoSeed
    /\ twin = NoTwin

parallelFrame == <<table, ops, last, splits, pop, gens, lineage, g_random_seed, twin>>

\* the branch num_threads <= 1 || genome_count == 1: the loop that calls
\* evaluate_func on every genome in the caller's thread, and the return
EvaluateDirect ==
    /\ pc = "parallel_call"
    /\ LET n == CapThreads(threads.num_threads, Len(genomes))
       IN  /\ n <= 1 \/ Len(genomes) = 1
           /\ \E fs \in [1..Len(genomes) -> ParFitness] :
                genomes' = [g \in 1..Len(genomes) |->
                               [genomes[g] EXCEPT !.fitness = fs[g]]]
           /\ threads' = [threads EXCEPT
                            !.num_threads = n,
                            !.evaluated = [g \in 1..Len(genomes) |-> <<0>>],
                            !.written = [g \in 1..Len(genomes) |-> <<0>>]]
    /\ pc' = "idle"
    /\ UNCHANGED loc
    /\ UNCHANGED parallelFrame
    /\ UNCHANGED callVars

\* the other branch, up to the loop that creates the threads
EvaluateParallelSetup ==
    /\ pc = "parallel_call"
    /\ LET n == CapThreads(threads.num_threads, Len(genomes))
       IN  /\ ~(n <= 1 \/ Len(genomes) = 1)
           /\ threads' = [threads EXCEPT
                            !.num_threads = n,
                            !.genomes_per_thread = Len(genomes) \div n,
                            !.remaining = Len(genomes) % n,
                            !.current_idx = 0]
    /\ pc' = "parallel_create"
    /\ loc' = [loc EXCEPT !.i = 0]
    /\ UNCHANGED genomes
    /\ UNCHANGED parallelFrame
    /\ UNCHANGED callVars

\* one pass of the loop that fills thread_data[i] and calls pthread_create,
\* or its end
CreateThread ==
    /\ pc = "parallel_create"
    /\ IF loc.i < threads.num_threads
       THEN LET end_idx == EndIdx(threads.current_idx, threads.genomes_per_thread,
                                  loc.i, threads.remaining)
            IN  /\ threads' = [threads EXCEPT
                                 !.thread_data =
                                     Append(@, [start_idx |-> threads.current_idx,
                                                end_idx |-> end_idx,
                                                i |-> threads.current_idx,
                                                pc |-> "evaluate",
                                                fitness |-> 0]),
                                 !.current_idx = end_idx]
                /\ loc' = [loc EXCEPT !.i = @ + 1]
                /\ pc' = pc
       ELSE /\ pc' = "parallel_join"
            /\ loc' = [loc EXCEPT !.i = 0]
            /\ UNCHANGED threads
    /\ UNCHANGED genomes
    /\ UNCHANGED parallelFrame
    /\ UNCHANGED callVars

\* evaluate_worker of thread_data[t - 1]: the loop test and the call of
\* evaluate_func on genomes[i]
WorkerEvaluate(t) ==
    /\ t \in 1..Len(threads.thread_data)
    /\ threads.thread_data[t].pc = "evaluate"
    /\ LET data == threads.thread_data[t]
       IN  IF data.i < data.end_idx
           THEN \E fitness \in ParFitness :
                  threads' = [threads EXCEPT
                                !.thread_data[t].fitness = fitness,
                                !.thread_data[t].pc = "lock",
                                !.evaluated[data.i + 1] = Append(@, t)]
           ELSE threads' = [threads EXCEPT !.thread_data[t].pc = "done"]
    /\ UNCHANGED <<genomes, pc, loc>>
    /\ UNCHANGED parallelFrame
    /\ UNCHANGED callVars

\* pthread_mutex_lock
WorkerLock(t) ==
    /\ t \in 1..Len(threads.thread_data)
    /\ threads.thread_data[t].pc = "lock"
    /\ threads.mutex = 0
    /\ threads' = [threads EXCEPT !.mutex = t, !.thread_data[t].pc = "write"]
    /\ UNCHANGED <<genomes, pc, loc>>
    /\ UNCHANGED parallelFrame
    /\ UNCHANGED callVars

\* genomes[i]->fitness = fitness, pthread_mutex_unlock, i++
WorkerWrite(t) ==
    /\ t \in 1..Len(threads.thread_data)
    /\ threads.thread_data[t].pc = "write"
    /\ LET data == threads.thread_data[t]
       IN  /\ genomes' = [genomes EXCEPT ![data.i + 1].fitness = data.fitness]
           /\ threads' = [threads EXCEPT
                            !.mutex = 0,
                            !.thread_data[t].i = @ + 1,
                            !.thread_data[t].pc = "evaluate",
                            !.written[data.i + 1] = Append(@, t)]
    /\ UNCHANGED <<pc, loc>>
    /\ UNCHANGED parallelFrame
    /\ UNCHANGED callVars

\* one pthread_join of the second loop (it returns once that worker has
\* returned), or the return of neat_evaluate_parallel
JoinThread ==
    /\ pc = "parallel_join"
    /\ IF loc.i < threads.num_threads
       THEN /\ threads.thread_data[loc.i + 1].pc = "done"
            /\ loc' = [loc EXCEPT !.i = @ + 1]
            /\ pc' = pc
       ELSE /\ pc' = "idle"
            /\ loc' = NoLoc
    /\ UNCHANGED <<genomes, threads>>
    /\ UNCHANGED parallelFrame
    /\ UNCHANGED callVars

NextParallel ==
    \/ EvaluateDirect
    \/ EvaluateParallelSetup
    \/ CreateThread
    \/ \E t \in 1..MaxThreads : WorkerEvaluate(t)
    \/ \E t \in 1..MaxThreads : WorkerLock(t)
    \/ \E t \in 1..MaxThreads : WorkerWrite(t)
    \/ JoinThread

SpecParallel == InitParallel /\ [][NextParallel]_vars

(* ------------------------- two runs of one program -------------------- *)
\* Two runs of the program
\*     neat_srand(seed); pop = neat_create_population(SplitInputs, 1, 2);
\*     pop->evaluate_genome = NodeCountFitness;
\*     MaxGenerations times: neat_evolve(pop);
\* The first run is held in the variables genomes, table, pop, pc, loc,
\* gens, ops and g_random_seed, the second in the record twin.  Both take
\* their steps together; a loop takes one step per pass.

\* the seeds handed to neat_srand
Seeds == {1}

\* neat_srand: the generator state is named by the seed and the number of
\* draws made from it
neat_srand(seed) == [seed |-> seed, draws |-> 0]

\* the callback pop->evaluate_genome of the two runs: a function of the
\* genome alone, in halves
NodeCountFitness(genome) == FitUnit * node_count(genome)

NoCounts == [matching |-> 0, disjoint |-> 0, excess |-> 0, weight_diff_sum |-> 0]
RunLoc == [i |-> 0, j |-> 0, g |-> 0, s |-> 0, acc |-> NoCounts, ret |-> "idle",
           new_genomes |-> <<>>, new_lineage |-> <<>>]
NoDraw == [k |-> 0, t |-> <<>>, m |-> NoMutation, w |-> 0]

\* the first run as a record
ThisRun ==
    [genomes |-> genomes, table |-> table, pop |-> pop, pc |-> pc, loc |-> loc,
     gens |-> gens, ops |-> ops, rng |-> g_random_seed, nan |-> twin.nan]

\* the run has made its last call of neat_evolve
RunEnded(run) == run.pc = "idle" /\ run.gens = 0

\* the passes of the loops of neat_create_population left for this run
CreatingPopulation(run) == run.pc \in {"pop_genome", "pop_nodes", "pop_conns"}
Speciating(run) == run.pc \in {"speciate", "speciate_genome", "walk"}

\* neat_create_population, one pass of a loop per step; w is the draw of
\* neat_random_normal
PopStep(run, w) ==
    LET n == Len(run.genomes) IN
    CASE run.pc = "pop_genome" ->
           IF n < run.pop.population_size
           THEN [run EXCEPT !.genomes = Append(@, neat_create_genome(n, Junk(0))),
                            !.pc = "pop_nodes", !.loc = RunLoc]
           ELSE [run EXCEPT !.pc = "speciate", !.loc = RunLoc]
      [] run.pc = "pop_nodes" ->
           IF run.loc.i < SplitInputs + 1 + OutputSize
           THEN [run EXCEPT
                   !.genomes[n] =
                       IF run.loc.i < SplitInputs
                       THEN neat_add_node(@, "INPUT", NEAT_PLACEMENT_INPUT, 0)
                       ELSE IF run.loc.i = SplitInputs
                            THEN neat_add_node(@, "BIAS", NEAT_PLACEMENT_INPUT, 0)
                            ELSE neat_add_node(@, "OUTPUT", NEAT_PLACEMENT_OUTPUT, 0),
                   !.loc.i = @ + 1]
           ELSE [run EXCEPT !.pc = "pop_conns", !.loc = RunLoc]
      [] OTHER ->
           IF run.loc.i < (SplitInputs + 1) * OutputSize
           THEN LET r == InitialConnection([g |-> run.genomes[n], t |-> run.table],
                                           SplitInputs, OutputSize, run.loc.i, w)
                IN  [run EXCEPT !.genomes[n] = r.g, !.table = r.t,
                                !.loc.i = @ + 1, !.rng.draws = @ + 1]
           ELSE [run EXCEPT !.pc = "pop_genome", !.loc = RunLoc]

\* neat_speciate, one step per pass of its loops and of the loop of
\* neat_compatibility_distance; loc.g and loc.s are the genome and the
\* species under comparison (TLA+ indices), loc.ret where the caller goes on
SpeciateStep(run) ==
    LET gs == run.genomes
        species == run.pop.species
        g == run.loc.g
        sp == run.loc.s
    IN
    CASE run.pc = "speciate" ->
           IF Len(gs) = 0
           THEN [run EXCEPT !.pop.species = <<>>, !.pc = run.loc.ret]
           ELSE [run EXCEPT
                   !.pop.species = <<NewSpecies(run.table.next_species_id, gs, 1)>>,
                   !.table.next_species_id = @ + 1,
                   !.loc.g = 2, !.loc.s = 1, !.pc = "speciate_genome"]
      [] run.pc = "speciate_genome" ->
           IF g > Len(gs)
           THEN [run EXCEPT !.pop.species = SelectSeq(@, HasMembers),
                            !.pc = run.loc.ret]
           ELSE IF sp > Len(species)
                THEN [run EXCEPT
                        !.pop.species =
                            Append(@, NewSpecies(run.table.next_species_id, gs, g)),
                        !.table.next_species_id = @ + 1,
                        !.loc.g = @ + 1, !.loc.s = 1]
                ELSE IF Len(species[sp].members) > 0 /\ species[sp].representative # 0
                     THEN [run EXCEPT !.pc = "walk", !.loc.i = 1, !.loc.j = 1,
                                      !.loc.acc = NoCounts]
                     ELSE [run EXCEPT !.loc.s = @ + 1]
      [] OTHER ->
           LET genome1 == gs[g]
               genome2 == gs[species[sp].representative]
               c1 == genome1.connections
               c2 == genome2.connections
           IN  IF run.loc.i <= Len(c1) /\ run.loc.j <= Len(c2)
               THEN LET w == CompatPass(c1, c2, run.loc)
                    IN  [run EXCEPT !.loc.i = w.i, !.loc.j = w.j, !.loc.acc = w.acc]
               ELSE LET c == [run.loc.acc EXCEPT
                                !.excess = (Len(c1) - (run.loc.i - 1))
                                           + (Len(c2) - (run.loc.j - 1))]
                        distance == DistanceOfCounts(c, genome1, genome2)
                    IN  IF FracLess(distance, FracOfInt(NEAT_COMPATIBILITY_THRESHOLD))
                        THEN [run EXCEPT
                                !.pop.species[sp] =
                                    neat_add_genome_to_species(@, gs, g),
                                !.loc.g = @ + 1, !.loc.s = 1,
                                !.pc = "speciate_genome"]
                        ELSE [run EXCEPT !.loc.s = @ + 1, !.pc = "speciate_genome"]

\* one pass of the while loop of neat_reproduce under the draws d; stale
\* is what conn_to_split->out_node reads if the array has moved
OffspringStep(run, d, stale) ==
    IF run.pop.species = <<>> THEN run
    ELSE LET members == run.pop.species[d.k].members
             parent1 == Tournament(members, run.genomes, d.t, 1, 0)
             offspring == neat_clone_genome(run.genomes[parent1], Junk(0))
             r == IF d.m.gate = "node"
                  THEN neat_mutate_add_node(offspring, run.table, d.m.a, d.m.b, stale)
                  ELSE neat_mutate(offspring, run.table, d.m)
         IN  [run EXCEPT
                !.loc.new_genomes = Append(@, r.g),
                !.loc.new_lineage = Append(@, Descent(run.pop.species[d.k], run.genomes)),
                !.table = r.t,
                !.ops = IF d.m = NoMutation THEN @ ELSE @ - 1,
                !.rng.draws = @ + 1]

\* neat_evolve from its first statement to its return, neat_speciate apart
EvolveStep(run, d, stale) ==
    CASE run.pc = "idle" ->
           LET fs == [k \in 1..Len(run.genomes) |-> NodeCountFitness(run.genomes[k])]
           IN  [run EXCEPT
                  !.genomes = [k \in 1..Len(@) |-> [@[k] EXCEPT !.fitness = fs[k]]],
                  !.pop.max_fitness_achieved = UpdateMax(fs, 1, @),
                  !.pop.members_generation = run.pop.generation,
                  !.gens = @ - 1,
                  !.pc = "speciate",
                  !.loc = [RunLoc EXCEPT !.ret = "adjust"]]
      [] run.pc = "adjust" ->
           [run EXCEPT !.genomes = AdjustAll(@, run.pop.species, 1),
                       !.pc = "remove_stale", !.loc = RunLoc]
      [] run.pc = "remove_stale" ->
           IF run.loc.i < Len(run.pop.species)
           THEN LET r == RemoveStaleIteration(run.pop, run.loc.i)
                IN  [run EXCEPT !.pop = r.p, !.loc.i = r.i]
           ELSE [run EXCEPT !.pc = "remove_weak", !.loc = RunLoc]
      [] run.pc = "remove_weak" ->
           [run EXCEPT
              !.pop.species = neat_remove_weak_species(@, run.pop.population_size,
                                                       run.nan),
              !.pc = "reproduce"]
      [] run.pc = "reproduce" ->
           LET acc == CarryElites([species |-> run.pop.species, new_genomes |-> <<>>,
                                   new_lineage |-> <<>>],
                                  run.genomes, run.pop.population_size, 1)
           IN  [run EXCEPT !.pop.species = acc.species,
                           !.loc.new_genomes = acc.new_genomes,
                           !.loc.new_lineage = acc.new_lineage,
                           !.pc = "offspring"]
      [] OTHER ->
           IF RoomFor(run.loc.new_genomes, run.pop.population_size)
           THEN OffspringStep(run, d, stale)
           ELSE [run EXCEPT !.genomes = run.loc.new_genomes,
                            !.pop.generation = @ + 1,
                            !.pc = "idle", !.loc = RunLoc]

\* the next step of a run
RunStep(run, d, stale) ==
    IF RunEnded(run) THEN run
    ELSE IF CreatingPopulation(run) THEN PopStep(run, d.w)
    ELSE IF Speciating(run) THEN SpeciateStep(run)
    ELSE EvolveStep(run, d, stale)

\* whether the next step of the run calls the generator
Draws(run) ==
    \/ run.pc = "pop_conns" /\ run.loc.i < (SplitInputs + 1) * OutputSize
    \/ /\ run.pc = "offspring"
       /\ RoomFor(run.loc.new_genomes, run.pop.population_size)
       /\ run.pop.species # <<>>

\* the draws enumerated for the next step of the run.  Weights: every
\* connection of the population draws the weight of the first.  Offspring:
\* the three draws of the tournament are equal, the test for a second
\* parent fails, and neat_mutate either passes no gate or splits
\* connection 0.
DrawsAt(run) ==
    IF ~Draws(run) THEN {NoDraw}
    ELSE IF run.pc = "pop_conns"
         THEN {[NoDraw EXCEPT !.w = w] :
                 w \in (IF connection_count(run.genomes[1]) = 0 THEN WeightDraws
                        ELSE {run.genomes[1].connections[1].weight})}
         ELSE {[k |-> k, t |-> [x \in 1..3 |-> c], m |-> m, w |-> 0] :
                 k \in Selectable(run.pop.species),
                 c \in 1..Len(run.pop.species[1].members),
                 m \in {NoMutation}
                       \cup (IF run.ops > 0
                             THEN {[gate |-> "node", a |-> 0, b |-> b, c |-> 0, d |-> 0] :
                                     b \in BiasDraws}
                             ELSE {})}

\* what the step can read through conn_to_split after the array moved
StaleAt(run, d) ==
    IF Draws(run) /\ run.pc = "offspring" /\ d.m.gate = "node"
    THEN LET members == run.pop.species[d.k].members
             parent1 == Tournament(members, run.genomes, d.t, 1, 0)
         IN  StaleReads(run.genomes[parent1], d.m.a)
    ELSE {0}

\* both runs call neat_srand with the same seed; what a conversion out of
\* the range of int leaves is the same in both (one build)
InitTwin ==
    /\ \E seed \in Seeds, m \in MfaInit, nan \in NanToInt :
         /\ g_random_seed = neat_srand(seed)
         /\ pop = [species |-> <<>>, population_size |-> PopulationSize,
                   generation |-> 0, max_fitness_achieved |-> m,
                   evaluate_genome |-> TRUE, members_generation |-> 0]
         /\ twin = [genomes |-> <<>>, table |-> neat_create_innovation_table,
                    pop |-> pop, pc |-> "pop_genome", loc |-> RunLoc,
                    gens |-> MaxGenerations, ops |-> MaxSplits,
                    rng |-> neat_srand(seed), nan |-> nan]
    /\ genomes = <<>>
    /\ table = neat_create_innovation_table
    /\ pc = "pop_genome"
    /\ loc = RunLoc
    /\ gens = MaxGenerations
    /\ ops = MaxSplits
    /\ last = NoOp
    /\ splits = {}
    /\ dist = NoDist
    /\ inputs = <<>>
    /\ outputs = <<>>
    /\ lineage = <<>>
    /\ threads = NoThreads

\* one step of each run that has not ended.  Two generators in the same
\* state give the same draw.
TwinStep ==
    /\ ~RunEnded(ThisRun) \/ ~RunEnded(twin)
    /\ \E d1 \in DrawsAt(ThisRun), d2 \in DrawsAt(twin) :
         /\ (ThisRun.rng = twin.rng /\ DrawsAt(ThisRun) = DrawsAt(twin)) => d1 = d2
         /\ \E stale1 \in StaleAt(ThisRun, d1), stale2 \in StaleAt(twin, d2) :
              LET r == RunStep(ThisRun, d1, stale1)
              IN  /\ genomes' = r.genomes
                  /\ table' = r.table
                  /\ pop' = r.pop
                  /\ pc' = r.pc
                  /\ loc' = r.loc
                  /\ gens' = r.gens
                  /\ ops' = r.ops
                  /\ g_random_seed' = r.rng
                  /\ twin' = RunStep(twin, d2, stale2)
    /\ UNCHANGED <<last, splits, lineage, threads>>
    /\ UNCHANGED callVars

\* the two runs are in neat_create_population
TwinCreate == CreatingPopulation(ThisRun) /\ TwinStep
\* the two runs are in neat_speciate
TwinSpeciate == Speciating(ThisRun) /\ TwinStep
\* the two runs are in neat_evolve outside neat_speciate
TwinEvolve == ~CreatingPopulation(ThisRun) /\ ~Speciating(ThisRun) /\ TwinStep

NextTwin ==
    \/ TwinCreate
    \/ TwinSpeciate
    \/ TwinEvolve

SpecTwin == InitTwin /\ [][NextTwin]_vars

(* ------------------------- neat_speciate called by hand ---------------- *)
\* neat_create_population(InputSize, OutputSize, SpeciateGenomes): the
\* caller then mutates genomes of pop->genomes and calls neat_speciate(pop)
InitSpeciate ==
    /\ \E ws \in {w \in [1..SpeciateGenomes -> WeightDraws] : w[1] = 4},
          m \in MfaInit :
         LET r == InitialGenomes([gs |-> <<>>, t |-> neat_create_innovation_table],
                                 0, SpeciateGenomes, InputSize, OutputSize, ws,
                                 Junk(0))
             sp == neat_speciate(r.t.next_species_id, r.gs)
         IN  /\ genomes = r.gs
             /\ table = [r.t EXCEPT !.next_species_id = sp.next_species_id]
             /\ pop = [species |-> sp.species, population_size |-> SpeciateGenomes,
                       generation |-> 0, max_fitness_achieved |-> m,
                       evaluate_genome |-> FALSE, members_generation |-> 0]
    /\ last = NoOp
    /\ splits = {}
    /\ dist = NoDist
    /\ inputs = <<>>
    /\ outputs = <<>>
    /\ pc = "idle"
    /\ loc = NoLoc
    /\ lineage = [k \in 1..SpeciateGenomes |-> NoDescent]
    /\ gens = 0
    /\ ops = MaxSpeciateOps
    /\ NoRuns

\* the caller calls neat_speciate(pop)
Speciate ==
    /\ pc = "idle"
    /\ Budget
    /\ LET sp == neat_speciate(table.next_species_id, genomes)
       IN  /\ pop' = [pop EXCEPT !.species = sp.species,
                                 !.members_generation = pop.generation]
           /\ table' = [table EXCEPT !.next_species_id = sp.next_species_id]
    /\ ops' = ops - 1
    /\ last' = [op |-> "speciate", g |-> 0, a |-> -1, b |-> -1, rc |-> 0]
    /\ UNCHANGED <<genomes, splits, pc, loc, gens, lineage>>
    /\ UNCHANGED callVars
    /\ UNCHANGED runVars

NextSpeciate ==
    \/ \E i \in 1..SpeciateGenomes : MutateWeights(i)
    \/ \E i \in 1..SpeciateGenomes : MutateAddNode(i)
    \/ Speciate

SpecSpeciate == InitSpeciate /\ [][NextSpeciate]_vars

(* ------------------------- the random number generator ---------------- *)
\* An unsigned long is held as the set of the positions of its one bits
\* (position 0: the lowest), LongBits wide; UINT32_MAX has the bits below
\* Uint32Bits.
LongBits == 64
Uint32Bits == 32

\* the unsigned long of a seed below 2^31
BitsOf(n) == {b \in 0..30 : (n \div 2^b) % 2 = 1}

\* x << k and x >> k on unsigned long: the bits shifted out are lost
ShiftLeft(x, k) == {b + k : b \in {c \in x : c + k < LongBits}}
ShiftRight(x, k) == {b - k : b \in {c \in x : c >= k}}
Xor(x, y) == (x \ y) \cup (y \ x)

\* xorshift32: the value returned, which is the new g_random_seed
xorshift32(x) ==
    LET x1 == Xor(x, ShiftLeft(x, 13))
        x2 == Xor(x1, ShiftRight(x1, 17))
    IN  Xor(x2, ShiftLeft(x2, 5))

\* x > UINT32_MAX
AboveUint32Max(x) == \E b \in x : b >= Uint32Bits

\* 2^b % n for b below LongBits and n in 1..2^10, in three factors
Pow2Mod(b, n) ==
    IF b <= 30 THEN 2^b % n
    ELSE IF b <= 60 THEN ((2^30 % n) * (2^(b - 30) % n)) % n
         ELSE ((((2^30 % n) * (2^30 % n)) % n) * (2^(b - 60) % n)) % n

\* the residues r of 0..hi, each times the bits of x whose power of two
\* leaves r
RECURSIVE SumResidues(_, _, _)
SumResidues(x, n, hi) ==
    IF hi < 1 THEN 0
    ELSE hi * Cardinality({b \in x : Pow2Mod(b, n) = hi})
         + SumResidues(x, n, hi - 1)

\* x % n
ModOfBits(x, n) == SumResidues(x, n, n - 1) % n

\* neat_random_uniform(min, max) when xorshift32 returned x: the double
\* min + span * (num / UINT32_MAX), kept as its three terms
neat_random_uniform(min, max, x) ==
    [min |-> min, span |-> max - min, num |-> x]

\* the double v is in [min, max]: span >= 0, and the quotient
\* num / UINT32_MAX is at most 1 unless num is above UINT32_MAX
UniformInRange(v) ==
    v.span >= 0 /\ (v.span = 0 \/ ~AboveUint32Max(v.num))

\* neat_random_int(min, max) when xorshift32 returned x
neat_random_int(min, max, x) == min + ModOfBits(x, max - min + 1)

\* the ranges the callers of the model draw from
DrawRanges == {<<0, 0>>, <<0, 1>>, <<-1, 1>>, <<0, 2>>}

\* the program after neat_srand(seed); x: the value of g_random_seed
InitRng ==
    /\ \E seed \in 1..MaxSeed :
         g_random_seed = [seed |-> seed, draws |-> 0, x |-> BitsOf(seed)]
    /\ genomes = <<>>
    /\ table = neat_create_innovation_table
    /\ ops = 0
    /\ last = NoOp
    /\ splits = {}
    /\ dist = NoDist
    /\ inputs = <<>>
    /\ outputs = <<>>
    /\ pop = NoPop
    /\ pc = "idle"
    /\ loc = NoLoc
    /\ gens = 0
    /\ lineage = <<>>
    /\ twin = NoTwin
    /\ threads = NoThreads

\* one call of xorshift32 by the function op, whose result is rc
Draw(op, r, rc) ==
    /\ g_random_seed' = [g_random_seed EXCEPT
                            !.x = xorshift32(g_random_seed.x),
                            !.draws = @ + 1]
    /\ last' = [op |-> op, g |-> 0, a |-> r[1], b |-> r[2], rc |-> rc]
    /\ UNCHANGED <<genomes, table, ops, splits, pop, pc, loc, gens, lineage,
                   twin, threads>>
    /\ UNCHANGED callVars

RandomUniform ==
    /\ g_random_seed.draws < MaxDraws
    /\ \E r \in DrawRanges :
         Draw("random_uniform", r,
              neat_random_uniform(r[1], r[2], xorshift32(g_random_seed.x)))

RandomInt ==
    /\ g_random_seed.draws < MaxDraws
    /\ \E r \in DrawRanges :
         Draw("random_int", r,
              neat_random_int(r[1], r[2], xorshift32(g_random_seed.x)))

NextRng == RandomUniform \/ RandomInt

SpecRng == InitRng /\ [][NextRng]_vars

(* ------------------------- claims -------------------------------------- *)
\* C1: two genomes that split a connection with the same endpoints (in, out)
\* under the same innovation table get the same new node id and the same two
\* innovation ids on the connections in -> new and new -> out.
C1_InnovationDeterminism ==
    \A s1 \in splits, s2 \in splits :
        (s1.g # s2.g /\ s1.in_node = s2.in_node /\ s1.out_node = s2.out_node)
        => /\ s1.node = s2.node
           /\ s1.innovation1 = s2.innovation1
           /\ s1.innovation2 = s2.innovation2

\* C2: in every genome reached by neat_add_node, neat_add_connection, the
\* five mutation operators and neat_crossover, no two connections share
\* (in_node, out_node) and no two nodes share an id.
C2_GeneUniqueness ==
    \A i \in Slots :
        /\ \A p, q \in 1..connection_count(genomes[i]) :
              (genomes[i].connections[p].in_node = genomes[i].connections[q].in_node
               /\ genomes[i].connections[p].out_node = genomes[i].connections[q].out_node)
              => p = q
        /\ \A p, q \in 1..node_count(genomes[i]) :
              genomes[i].nodes[p].id = genomes[i].nodes[q].id => p = q

\* a duplicate was offered to neat_add_connection and turned down
C2_Witness ==
    /\ last.op = "add_connection"
    /\ last.rc = -1
    /\ connection_count(genomes[last.g]) >= 3

\* the nodes of genome with the given id
NodesWithId(genome, id) ==
    {p \in 1..node_count(genome) : genome.nodes[p].id = id}

\* C3: without recurrence every enabled connection of every genome reached
\* by mutations and crossovers goes from a lower to a higher placement
\* (input < hidden < output).  Stated for the connections whose endpoints
\* are nodes of the genome.
C3_FeedForward ==
    \A i \in Slots : \A p \in 1..connection_count(genomes[i]) :
        LET c == genomes[i].connections[p] IN
        c.enabled =>
            \A n \in NodesWithId(genomes[i], c.in_node),
               m \in NodesWithId(genomes[i], c.out_node) :
                genomes[i].nodes[n].placement < genomes[i].nodes[m].placement

Innovations(genome) ==
    {genome.connections[p].innovation : p \in 1..connection_count(genome)}

\* C4: every connection of the child neat_crossover returns carries the
\* innovation id of a connection of parent1 or of parent2.
C4_CrossoverContainment ==
    [][last'.op = "crossover" =>
        Innovations(genomes'[last'.g]) \subseteq
            (Innovations(genomes[last'.a]) \cup Innovations(genomes[last'.b]))]_vars

\* C8: neat_compatibility_distance(A, B) = neat_compatibility_distance(B, A)
\* for connection lists in any order of innovation ids, and the distance of
\* a genome from itself (or from a genome with the same connections) is 0.
C8_CompatSymmetry ==
    dist.i # 0 =>
        /\ FracEq(dist.ab, dist.ba)
        /\ genomes[dist.i].connections = genomes[dist.j].connections
           => dist.ab.num = 0

\* two different genomes were compared, one longer than the other, with
\* innovation ids out of order, a matching gene and a distance above 0
C8_Witness ==
    /\ dist.i = 1 /\ dist.j = 2
    /\ connection_count(genomes[1]) > connection_count(genomes[2])
    /\ connection_count(genomes[1]) >= 2
    /\ genomes[1].connections[1].innovation > genomes[1].connections[2].innovation
    /\ CompatCounts(genomes[1], genomes[2]).matching > 0
    /\ dist.ab.num > 0

\* C10: neat_evaluate called twice in a row on a genome with the same
\* inputs writes the same outputs the second time.
C10_ActivationIdempotence ==
    [][(last'.op = "evaluate" /\ last'.rc = 2) => outputs' = outputs]_vars

\* a genome with a hidden node was evaluated twice in a row on the same
\* inputs: the first call left values other than 0 on its nodes
C10_Witness ==
    /\ last.op = "evaluate"
    /\ last.rc = 2
    /\ \E p \in 1..node_count(genomes[last.g]) :
          /\ genomes[last.g].nodes[p].type = "HIDDEN"
          /\ genomes[last.g].nodes[p].value.args # <<>>

\* C5: every call of neat_evolve returns, whatever fitness values the
\* genomes have (positive non-integer, all zero, negative): a call that is
\* under way leads to the state in which no call runs.
C5_EvolveTerminates == (pc # "idle") ~> (pc = "idle")

\* C6: whenever neat_evolve has returned, after any number of generations,
\* genome_count (the length of pop->genomes) equals population_size.
C6_PopulationSizeStable ==
    (pc = "idle" /\ pop.generation > 0) => Len(genomes) = pop.population_size

\* the second generation has ended, and it held an offspring next to the
\* elite of its only species
C6_Witness ==
    /\ pc = "idle"
    /\ pop.generation = MaxGenerations
    /\ Len(pop.species) = 1
    /\ Len(genomes) = PopulationSize

\* C7: a species whose best fitness ever has not risen for more than
\* NEAT_DEFAULT_STAGNATION_LIMIT generations in a row gives no genome to the
\* next generation, unless it holds the best genome of the population.
C7_StagnationEviction ==
    \A k \in 1..Len(loc.new_lineage) :
        loc.new_lineage[k].stagnant > NEAT_DEFAULT_STAGNATION_LIMIT
        => loc.new_lineage[k].holds_best

\* the sum of the adjusted fitness of the members from position i on
RECURSIVE SumAdjusted(_, _, _)
SumAdjusted(gs, members, i) ==
    IF i > Len(members) THEN FracOfInt(0)
    ELSE LET a == gs[members[i]].adjusted_fitness
             r == SumAdjusted(gs, members, i + 1)
         IN  [num |-> a.num * r.den + r.num * a.den, den |-> a.den * r.den]

\* C9: after neat_adjust_fitness on a species of n >= 1 members, the
\* adjusted fitness of every member is its raw fitness divided by n, their
\* sum is the sum of the raw fitness values divided by n, and no raw
\* fitness has changed.
C9_FitnessSharing ==
    [][last'.op = "adjust_fitness" =>
        LET members == pop.species[last'.g].members
            n == Len(members)
        IN  /\ \A m \in Range(members) :
                  FracEq(genomes'[m].adjusted_fitness,
                         [num |-> genomes[m].fitness, den |-> n])
            /\ FracEq(SumAdjusted(genomes', members, 1),
                      [num |-> SumFitness(genomes, members, 1), den |-> n])
            /\ \A g \in 1..Len(genomes) : genomes'[g].fitness = genomes[g].fitness]_vars

\* neat_adjust_fitness ran on a species of two members, one of them with a
\* fitness other than 0
C9_Witness ==
    /\ last.op = "adjust_fitness"
    /\ Len(pop.species[last.g].members) = 2
    /\ \E m \in Range(pop.species[last.g].members) :
          /\ genomes[m].fitness # 0
          /\ genomes[m].adjusted_fitness.den = 2

\* the connections of genome from in_node to out_node (TLA+ indices)
PairIdx(genome, in_node, out_node) ==
    {p \in 1..connection_count(genome) :
        /\ genome.connections[p].in_node = in_node
        /\ genome.connections[p].out_node = out_node}

\* C12: neat_add_connection(genome, in, out, w, enabled) on a genome that
\* already has a connection in -> out returns a value other than the success
\* value 0 and leaves connection_count and every connection as they were.
C12_DuplicateRejection ==
    [][(last'.op = "add_connection"
        /\ PairIdx(genomes[last'.g], last'.a, last'.b) # {})
       => /\ last'.rc # 0
          /\ connection_count(genomes'[last'.g]) = connection_count(genomes[last'.g])
          /\ genomes'[last'.g].connections = genomes[last'.g].connections]_vars

\* neat_add_connection was handed a pair the genome has, the weight 4 and a
\* flag, and the connection of that pair has another weight than 4
C12_Witness ==
    /\ last.op = "add_connection"
    /\ last.rc # 0
    /\ \E p \in PairIdx(genomes[last.g], last.a, last.b) :
          genomes[last.g].connections[p].weight = -4

\* C13: neat_add_connection(genome, n, n, w, enabled) is rejected and adds
\* no connection, for every genome and every node n.
C13_SelfLoopRejection ==
    [][(last'.op = "add_connection" /\ last'.a = last'.b)
       => /\ last'.rc # 0
          /\ connection_count(genomes'[last'.g]) = connection_count(genomes[last'.g])]_vars

\* C14: for parents with fitness(parent1) >= fitness(parent2), the child of
\* neat_crossover(parent1, parent2) has as many nodes as parent1 and, for
\* every connection of parent1, a connection with the same innovation id.
C14_FitterInheritance ==
    [][(last'.op = "crossover"
        /\ genomes[last'.a].fitness >= genomes[last'.b].fitness)
       => /\ node_count(genomes'[last'.g]) = node_count(genomes[last'.a])
          /\ Innovations(genomes[last'.a]) \subseteq Innovations(genomes'[last'.g])]_vars

\* C15: on a genome with at least one connection, for every sequence of
\* values the generator can return, neat_mutate_toggle_connection flips the
\* enabled flag of exactly one connection and changes nothing else.
C15_ToggleExactlyOne ==
    [][(last'.op = "mutate_toggle_connection"
        /\ connection_count(genomes[last'.g]) >= 1)
       => \E p \in 1..connection_count(genomes[last'.g]) :
            genomes'[last'.g] =
                [genomes[last'.g] EXCEPT !.connections[p].enabled = ~@]]_vars

\* C17: whenever neat_evaluate reads the value of a bias node as the source
\* of an enabled connection, that value is 1.0, whatever the bias scalar and
\* the activation kind of the node.
C17_BiasYieldsOne ==
    last.op = "evaluate" =>
        \A p \in 1..node_count(genomes[last.g]) :
            LET args == genomes[last.g].nodes[p].value.args IN
            \A k \in 1..Len(args) :
                NodeAt(genomes[last.g], args[k].src).type = "BIAS"
                => args[k].v = Const(1)

\* C18: when neat_evaluate activates a genome the population made (inputs,
\* bias, outputs first, hidden nodes appended by splits), every node is
\* computed after the sources of its enabled incoming connections: the value
\* it read from a source is the value that source has in this activation.
C18_TopologicalEvaluation ==
    (last.op = "evaluate" /\ Dangling(genomes[last.g]) = {}) =>
        \A p \in 1..node_count(genomes[last.g]) :
            LET args == genomes[last.g].nodes[p].value.args IN
            \A k \in 1..Len(args) :
                args[k].v = genomes[last.g].nodes[args[k].src + 1].value

\* C19: when neat_mutate_add_node finds an enabled connection c = (in, out, w),
\* afterwards c is disabled with its weight unchanged, there is exactly one
\* more node, the hidden node h, and exactly two more connections: in -> h
\* with weight 1.0 and h -> out with weight w, both enabled; every other node
\* and connection is unchanged.  Also when the connection array is
\* reallocated while the two connections are appended.
C19_NodeSplitEffect ==
    [][(last'.op = "mutate_add_node" /\ last'.a # -1)
       => LET g == genomes[last'.g]
              after == genomes'[last'.g]
              c == g.connections[last'.a + 1]
              h == node_count(g)
              n == connection_count(g)
          IN  /\ node_count(after) = h + 1
              /\ after.nodes[h + 1].type = "HIDDEN"
              /\ after.nodes[h + 1].id = h
              /\ \A p \in 1..h : after.nodes[p] = g.nodes[p]
              /\ connection_count(after) = n + 2
              /\ \A p \in 1..n :
                    after.connections[p] =
                        IF p = last'.a + 1 THEN [c EXCEPT !.enabled = FALSE]
                        ELSE g.connections[p]
              /\ after.connections[n + 1].in_node = c.in_node
              /\ after.connections[n + 1].out_node = h
              /\ after.connections[n + 1].weight = 1
              /\ after.connections[n + 1].enabled
              /\ after.connections[n + 2].in_node = h
              /\ after.connections[n + 2].out_node = c.out_node
              /\ after.connections[n + 2].weight = c.weight
              /\ after.connections[n + 2].enabled]_vars

\* innovation numbers the table has given
TableNumbers(t) ==
    {t.innovations[k].innovation_number : k \in 1..Len(t.innovations)}

\* C20: without recurrence, when neat_mutate_add_connection draws two
\* distinct nodes (from, to) that are not connected and placement(from) <
\* placement(to), it appends exactly one enabled connection from -> to whose
\* innovation id comes from the innovation table.
C20_AddConnectionSucceeds ==
    [][(last'.op = "mutate_add_connection" /\ last'.a # last'.b)
       => LET g == genomes[last'.g]
              after == genomes'[last'.g]
              from_node == g.nodes[last'.a + 1]
              to_node == g.nodes[last'.b + 1]
              n == connection_count(g)
          IN  (PairIdx(g, from_node.id, to_node.id) = {}
               /\ from_node.placement < to_node.placement)
              => /\ connection_count(after) = n + 1
                 /\ after.connections[n + 1].in_node = from_node.id
                 /\ after.connections[n + 1].out_node = to_node.id
                 /\ after.connections[n + 1].enabled
                 /\ after.connections[n + 1].innovation \in TableNumbers(table')]_vars

\* C16: in neat_evaluate_parallel with num_threads >= 1 and genome_count >= 1
\* the ranges [start_idx, end_idx) handed to the workers are pairwise
\* disjoint and together cover 0..genome_count-1; under every interleaving
\* each genome is evaluated and its fitness written by exactly one worker,
\* exactly once, before the call returns.
C16_ParallelPartition ==
    LET data == threads.thread_data
        all == 1..Len(genomes)
    IN  /\ \A a, b \in 1..Len(data) :
              a # b => \/ data[a].end_idx <= data[b].start_idx
                       \/ data[b].end_idx <= data[a].start_idx
        /\ (pc = "parallel_join" \/ (pc = "idle" /\ Len(data) > 0))
           => \A g \in all : \E a \in 1..Len(data) :
                 data[a].start_idx <= g - 1 /\ g - 1 < data[a].end_idx
        /\ \A g \in all : /\ Len(threads.evaluated[g]) <= 1
                           /\ Len(threads.written[g]) <= 1
                           /\ \A k \in 1..Len(threads.written[g]) :
                                 threads.written[g][k] = threads.evaluated[g][k]
        /\ pc = "idle"
           => \A g \in all : /\ Len(threads.evaluated[g]) = 1
                              /\ Len(threads.written[g]) = 1

\* a call with two workers and three genomes has returned: the ranges are
\* of different lengths
C16_Witness ==
    /\ pc = "idle"
    /\ Len(genomes) = 3
    /\ Len(threads.thread_data) = 2
    /\ threads.remaining = 1
    /\ \A g \in 1..3 : Len(threads.written[g]) = 1

\* the connection list as the claim compares it
Genes(genome) ==
    [k \in 1..connection_count(genome) |->
        [innovation |-> genome.connections[k].innovation,
         in_node |-> genome.connections[k].in_node,
         out_node |-> genome.connections[k].out_node,
         weight |-> genome.connections[k].weight,
         enabled |-> genome.connections[k].enabled]]

\* C11: two single-threaded runs that call neat_srand with the same seed,
\* create the same population and call neat_evolve the same number of times
\* with the same deterministic callback end with the same connection list
\* (innovation, endpoints, weight, enabled) of genome 0.
C11_StructuralDeterminism ==
    (/\ RunEnded(ThisRun)
     /\ RunEnded(twin)
     /\ g_random_seed.seed = twin.rng.seed
     /\ pop.generation = twin.pop.generation)
    => Genes(genomes[1]) = Genes(twin.genomes[1])

\* C21: each time neat_evolve advances pop->generation the memoised records
\* of the innovation table are cleared: a key (in, out, kind) the table held
\* in generation g receives, when it is looked up in generation g + 1, an
\* innovation id the table had not given before; the counter is not reset.
C21_GenerationMemo ==
    [][pop'.generation = pop.generation + 1
       => /\ \A k \in 1..Len(table.innovations) :
               LET rec == table.innovations[k]
               IN  neat_get_innovation(table', rec.in_node, rec.out_node,
                                       rec.is_new_node, rec.node_id).n
                       \notin TableNumbers(table)
          /\ table'.next_innovation >= table.next_innovation]_vars

\* C22: in every call of neat_evolve, neither neat_remove_stale_species nor
\* neat_remove_weak_species removes the species that holds the genome of the
\* highest raw fitness of the population (here: for the fitness assignments
\* whose sum of average fitnesses is not zero).
C22_GlobalBestProtected ==
    [][(pc \in {"remove_stale", "remove_weak"}
        /\ TotalAvgFitness(pop.species, 1).num # 0)
       => \A k \in 1..Len(pop.species) :
            HoldsBest(pop.species[k], genomes)
            => \E j \in 1..Len(pop'.species) :
                 pop'.species[j].id = pop.species[k].id]_vars

\* C23: in every genome reached by mutations and crossovers, the in_node
\* and the out_node of every connection are ids of nodes of that genome.
C23_ValidEndpoints ==
    \A i \in 1..Len(genomes) : Dangling(genomes[i]) = {}

\* C27: in every genome reached from neat_create_population by mutations
\* and crossovers, the connection list is in strictly increasing order of
\* innovation id.
C27_SortedGenes ==
    \A i \in 1..Len(genomes) :
        \A p, q \in 1..connection_count(genomes[i]) :
            p < q => genomes[i].connections[p].innovation
                        < genomes[i].connections[q].innovation

\* C25: if pruning leaves no species when neat_reproduce starts,
\* neat_reproduce does not retry for ever: it leaves its while loop.
C25_BoundedReproduction ==
    (pc = "offspring" /\ pop.species = <<>>) ~> (pc # "offspring")

\* C29: whenever neat_evolve has returned, every genome a member list or a
\* representative of a species of pop->species points to is a genome held
\* in pop->genomes, not one freed with the generation before.
C29_NoDanglingMembers ==
    (pc = "idle" /\ pop.species # <<>>)
    => pop.members_generation = pop.generation

\* the nodes a path of one or more connections leads to from node n, found
\* in at most k rounds
RECURSIVE ReachedFrom(_, _, _)
ReachedFrom(genome, S, k) ==
    LET T == S \cup {genome.connections[p].out_node :
                        p \in {q \in 1..connection_count(genome) :
                                  genome.connections[q].in_node \in S}}
    IN  IF k = 0 \/ T = S THEN S ELSE ReachedFrom(genome, T, k - 1)

\* the nodes that lie on a directed cycle of connections
OnCycle(genome) ==
    {n \in {genome.connections[p].in_node : p \in 1..connection_count(genome)} :
        n \in ReachedFrom(genome,
                          {genome.connections[p].out_node :
                             p \in {q \in 1..connection_count(genome) :
                                       genome.connections[q].in_node = n}},
                          connection_count(genome))}

\* C24: in non-recurrent mode the graph of the connections of every genome
\* reached by node splits, add-connection mutations, toggles and crossovers
\* between genomes of one population has no directed cycle.
C24_Acyclic ==
    \A i \in 1..Len(genomes) : OnCycle(genomes[i]) = {}

\* member m of the species has the highest raw fitness of its members
Fittest(sp, gs, m) ==
    /\ m \in Range(sp.members)
    /\ \A o \in Range(sp.members) : gs[m].fitness >= gs[o].fitness

\* copy has the nodes and the connections (end points, weights, enabled
\* flags, innovation numbers) of genome
Verbatim(copy, genome) ==
    /\ copy.nodes = genome.nodes
    /\ copy.connections = genome.connections

\* C26: when neat_reproduce installs the next generation and the species
\* that survived pruning are at most population_size, the next generation
\* holds for every one of them, at the position of the species, a genome with
\* the nodes, connections, weights and enabled flags of a member of the
\* highest raw fitness of that species
C26_Elitism ==
    [][(pc = "offspring" /\ pc' = "idle"
            /\ Len(pop.species) <= pop.population_size)
        => \A k \in 1..Len(pop.species) :
              /\ k <= Len(genomes')
              /\ \E m \in 1..Len(genomes) :
                    /\ Fittest(pop.species[k], genomes, m)
                    /\ Verbatim(genomes'[k], genomes[m])]_vars

\* C26: neat_reproduce has filled the next generation, and the elite of a
\* species whose first member in population order is less fit than another
\* member stands in it
C26_Witness ==
    /\ pc = "offspring"
    /\ ~RoomFor(loc.new_genomes, pop.population_size)
    /\ \E k \in 1..Len(pop.species) :
          \E m, o \in Range(pop.species[k].members) :
            /\ m > o
            /\ genomes[m].fitness > genomes[o].fitness
            /\ Fittest(pop.species[k], genomes, m)
            /\ ~Verbatim(genomes[m], genomes[o])
            /\ Verbatim(loc.new_genomes[k], genomes[m])

\* genome g is at compatibility distance below NEAT_COMPATIBILITY_THRESHOLD
\* of the representative of sp
NearRepresentative(sp, gs, g) ==
    FracLess(neat_compatibility_distance(gs[g], gs[sp.representative]),
             FracOfInt(NEAT_COMPATIBILITY_THRESHOLD))

\* the positions in species of the species that list g as a member
SpeciesOf(species, g) ==
    {k \in 1..Len(species) : g \in Range(species[k].members)}

\* the species created before genome g was looked at (their representative
\* stands before g in pop->genomes) that g is compatible with
NearBefore(species, gs, g) ==
    {k \in 1..Len(species) :
        species[k].representative < g /\ NearRepresentative(species[k], gs, g)}

\* C28: when neat_speciate has returned (called by neat_create_population
\* or by the caller), no species is empty, every genome is listed once, by
\* one species, and that species is the first in creation order whose
\* representative is compatible with the genome, or, when no species
\* created before is, a new species the genome is the representative of
C28_FirstFitPartition ==
    last.op \in {"init", "speciate"} =>
        /\ \A k \in 1..Len(pop.species) : Len(pop.species[k].members) > 0
        /\ \A k, j \in 1..Len(pop.species) :
              k < j => pop.species[k].id < pop.species[j].id
        /\ \A g \in 1..Len(genomes) :
              /\ Cardinality(SpeciesOf(pop.species, g)) = 1
              /\ \A k \in SpeciesOf(pop.species, g) :
                    /\ Cardinality({x \in 1..Len(pop.species[k].members) :
                                        pop.species[k].members[x] = g}) = 1
                    /\ k = Min({j \in 1..Len(pop.species) :
                                    NearRepresentative(pop.species[j], genomes, g)})
                    /\ IF NearBefore(pop.species, genomes, g) = {}
                       THEN pop.species[k].representative = g
                       ELSE k = Min(NearBefore(pop.species, genomes, g))

\* C28: neat_speciate has returned two species, and a genome compatible
\* with the representatives of both is a member of the first
C28_Witness ==
    /\ last.op = "speciate"
    /\ Len(pop.species) >= 2
    /\ \E g \in 1..Len(genomes) :
          /\ NearBefore(pop.species, genomes, g) = {1, 2}
          /\ SpeciesOf(pop.species, g) = {1}

\* C30: after neat_srand with a seed that is not zero, every value
\* xorshift32 returns is at most UINT32_MAX, every neat_random_uniform(min,
\* max) with min <= max returns a value in [min, max], and every
\* neat_random_int(min, max) returns an integer in [min, max]
C30_RngRange ==
    /\ g_random_seed.draws > 0 => ~AboveUint32Max(g_random_seed.x)
    /\ last.op = "random_uniform" => UniformInRange(last.rc)
    /\ last.op = "random_int" => last.rc \in last.a..last.b
====
